---- MODULE Spec2Model ----
(***************************************************************************)
(* Mail broker (jeninh/mail-api): the Letter / Order lifecycle, the poll   *)
(* reconciliation, the interactive callbacks and the Event ledger, as one  *)
(* state machine over the committed database rows, the ORM sessions of the *)
(* operations in flight, and what has been sent to the Mail Gateway        *)
(* (Theseus) and to the Notification Gateway (Slack).                      *)
(*                                                                         *)
(* Every handler is cut at the awaits that separate its database reads     *)
(* from its commit; a step between two cuts is atomic because the asyncio  *)
(* loop only switches tasks at an await and the step's other awaits touch  *)
(* no state another task reads.                                            *)
(***************************************************************************)
EXTENDS Integers, Sequences, FiniteSets, TLC

(* ------------------------------------------------------------------ *)
(* Bounds of the model                                                 *)
(* ------------------------------------------------------------------ *)

\* successful Mail Gateway creates (hence Letter rows) explored
MaxCreates == 2
\* Order rows explored
MaxOrders == 1
\* readings of datetime.utcnow() explored; each reading is later than the last
MaxClock == 2

(* ------------------------------------------------------------------ *)
(* Values                                                              *)
(* ------------------------------------------------------------------ *)

\* Optional[...] columns and arguments: None is the empty tuple
None == <<>>
Some(x) == <<x>>
IsNone(o) == o = <<>>
Val(o) == o[1]

EventIds == {1, 2}

\* models.MailType
LETTERMAIL == "lettermail"
BUBBLE_PACKET == "bubble_packet"
PARCEL == "parcel"
MailType == {LETTERMAIL, BUBBLE_PACKET, PARCEL}

\* models.LetterStatus
QUEUED == "queued"
PROCESSING == "processing"
SHIPPED == "shipped"
FAILED == "failed"
LetterStatus == {QUEUED, PROCESSING, SHIPPED, FAILED}

\* models.OrderStatus
PENDING == "pending"
FULFILLED == "fulfilled"
OrderStatus == {PENDING, FULFILLED}

(* ------------------------------------------------------------------ *)
(* Cost Engine (cost_calculator.py). A country is a tuple of           *)
(* characters, so that lower() and strip() are computed, not assumed.  *)
(* ------------------------------------------------------------------ *)

Uppers == <<"A","B","C","D","E","F","G","H","I","J","K","L","M",
            "N","O","P","Q","R","S","T","U","V","W","X","Y","Z">>
Lowers == <<"a","b","c","d","e","f","g","h","i","j","k","l","m",
            "n","o","p","q","r","s","t","u","v","w","x","y","z">>
Whitespace == {" ", "\t", "\n"}

\* str.lower() on one character
UpperToLower ==
  [ch \in {Uppers[i] : i \in DOMAIN Uppers} |->
     Lowers[CHOOSE i \in DOMAIN Uppers : Uppers[i] = ch]]
LowerChar(ch) == IF ch \in DOMAIN UpperToLower THEN UpperToLower[ch] ELSE ch

\* str.lower()
Lower(s) == [i \in DOMAIN s |-> LowerChar(s[i])]

RECURSIVE LStrip(_)
LStrip(s) == IF s # <<>> /\ Head(s) \in Whitespace THEN LStrip(Tail(s)) ELSE s

RECURSIVE RStrip(_)
RStrip(s) ==
  IF s # <<>> /\ s[Len(s)] \in Whitespace THEN RStrip(SubSeq(s, 1, Len(s) - 1)) ELSE s

\* str.strip()
Strip(s) == RStrip(LStrip(s))

\* country.lower().strip()
country_lower(country) == Strip(Lower(country))

CANADA == <<"c","a","n","a","d","a">>
US_NAMES == { <<"u","n","i","t","e","d"," ","s","t","a","t","e","s">>,
              <<"u","s","a">>,
              <<"u","s">>,
              <<"u","n","i","t","e","d"," ","s","t","a","t","e","s"," ","o","f"," ",
                "a","m","e","r","i","c","a">> }

Ok(cents) == [kind |-> "ok", cents |-> cents]
CostCalculationError == [kind |-> "CostCalculationError", cents |-> 0]
ParcelQuoteRequired == [kind |-> "ParcelQuoteRequired", cents |-> 0]

\* a faulty variant, for comparison: Canada charged at the US rate
calculate_lettermail_cost_us_rate(country) ==
  IF country_lower(country) = CANADA THEN 200
  ELSE IF country_lower(country) \in US_NAMES THEN 200
  ELSE 350
\* cost_calculator.py 12-27
calculate_lettermail_cost(country) ==
  IF country_lower(country) = CANADA THEN 175
  ELSE IF country_lower(country) \in US_NAMES THEN 200
  ELSE 350

\* faulty variants, for comparison: the tier limits taken as exclusive; an
\* overweight packet answered with the quote signal of parcels
calculate_bubble_packet_cost_open_tiers(country, weight_grams) ==
  IF weight_grams > 500 THEN CostCalculationError
  ELSE IF country_lower(country) = CANADA THEN
         IF weight_grams < 100 THEN Ok(311)
         ELSE IF weight_grams < 200 THEN Ok(451)
         ELSE IF weight_grams < 300 THEN Ok(591)
         ELSE IF weight_grams < 400 THEN Ok(662)
         ELSE Ok(705)
  ELSE IF country_lower(country) \in US_NAMES THEN
         IF weight_grams < 100 THEN Ok(451)
         ELSE IF weight_grams < 200 THEN Ok(716)
         ELSE Ok(1338)
  ELSE   IF weight_grams < 100 THEN Ok(808)
         ELSE IF weight_grams < 200 THEN Ok(1338)
         ELSE Ok(2580)

calculate_bubble_packet_cost_quoting(country, weight_grams) ==
  IF weight_grams > 500 THEN ParcelQuoteRequired
  ELSE IF country_lower(country) = CANADA THEN
         IF weight_grams <= 100 THEN Ok(311)
         ELSE IF weight_grams <= 200 THEN Ok(451)
         ELSE IF weight_grams <= 300 THEN Ok(591)
         ELSE IF weight_grams <= 400 THEN Ok(662)
         ELSE Ok(705)
  ELSE IF country_lower(country) \in US_NAMES THEN
         IF weight_grams <= 100 THEN Ok(451)
         ELSE IF weight_grams <= 200 THEN Ok(716)
         ELSE Ok(1338)
  ELSE   IF weight_grams <= 100 THEN Ok(808)
         ELSE IF weight_grams <= 200 THEN Ok(1338)
         ELSE Ok(2580)

\* cost_calculator.py 30-71
calculate_bubble_packet_cost(country, weight_grams) ==
  IF weight_grams > 500 THEN CostCalculationError
  ELSE IF country_lower(country) = CANADA THEN
         IF weight_grams <= 100 THEN Ok(311)
         ELSE IF weight_grams <= 200 THEN Ok(451)
         ELSE IF weight_grams <= 300 THEN Ok(591)
         ELSE IF weight_grams <= 400 THEN Ok(662)
         ELSE Ok(705)
  ELSE IF country_lower(country) \in US_NAMES THEN
         IF weight_grams <= 100 THEN Ok(451)
         ELSE IF weight_grams <= 200 THEN Ok(716)
         ELSE Ok(1338)
  ELSE   IF weight_grams <= 100 THEN Ok(808)
         ELSE IF weight_grams <= 200 THEN Ok(1338)
         ELSE Ok(2580)

\* a faulty variant, for comparison: a parcel priced at nothing
calculate_parcel_cost_free(weight_grams, country) == Ok(0)
\* cost_calculator.py 74-83
calculate_parcel_cost(weight_grams, country) == ParcelQuoteRequired

\* faulty variants, for comparison: the 30 g limit of lettermail enforced;
\* a parcel without weight sent on for a quote
calculate_cost_weighing_letters(mail_type, country, weight_grams) ==
  IF mail_type = LETTERMAIL THEN
         IF ~IsNone(weight_grams) /\ Val(weight_grams) > 30 THEN CostCalculationError
         ELSE Ok(calculate_lettermail_cost(country))
  ELSE IF mail_type = BUBBLE_PACKET THEN
         IF IsNone(weight_grams) THEN CostCalculationError
         ELSE calculate_bubble_packet_cost(country, Val(weight_grams))
  ELSE IF mail_type = PARCEL THEN
         IF IsNone(weight_grams) THEN CostCalculationError
         ELSE calculate_parcel_cost(Val(weight_grams), country)
  ELSE CostCalculationError

calculate_cost_quoting_unweighed(mail_type, country, weight_grams) ==
  IF mail_type = LETTERMAIL THEN Ok(calculate_lettermail_cost(country))
  ELSE IF mail_type = BUBBLE_PACKET THEN
         IF IsNone(weight_grams) THEN CostCalculationError
         ELSE calculate_bubble_packet_cost(country, Val(weight_grams))
  ELSE IF mail_type = PARCEL THEN ParcelQuoteRequired
  ELSE CostCalculationError

\* weight_grams is an Optional[int]
calculate_cost(mail_type, country, weight_grams) ==
  IF mail_type = LETTERMAIL THEN Ok(calculate_lettermail_cost(country))
  ELSE IF mail_type = BUBBLE_PACKET THEN
         IF IsNone(weight_grams) THEN CostCalculationError
         ELSE calculate_bubble_packet_cost(country, Val(weight_grams))
  ELSE IF mail_type = PARCEL THEN
         IF IsNone(weight_grams) THEN CostCalculationError
         ELSE calculate_parcel_cost(Val(weight_grams), country)
  ELSE CostCalculationError

\* a faulty variant, for comparison: the country compared without strip()
get_stamp_region_unstripped(country) ==
  IF Lower(country) = CANADA THEN "CA"
  ELSE IF Lower(country) \in US_NAMES THEN "US"
  ELSE "INT"
\* cost_calculator.py 125-141
get_stamp_region(country) ==
  IF country_lower(country) = CANADA THEN "CA"
  ELSE IF country_lower(country) \in US_NAMES THEN "US"
  ELSE "INT"

(* ------------------------------------------------------------------ *)
(* State                                                               *)
(* ------------------------------------------------------------------ *)

VARIABLES
  events,     \* table events: id -> committed row
  letters,    \* table letters: committed rows, the primary key is the index
  orders,     \* table orders: committed rows, the primary key is the index
  clock,      \* number of datetime.utcnow() readings so far
  theseus,    \* Mail Gateway: how many letters it has created (ids 1..theseus)
  slack,      \* Notification Gateway: messages posted and edits pushed
  requests,   \* create_letter / create_order requests in flight
  payers,     \* mark-paid operations in flight
  polls,      \* check_all_pending_letters runs in flight
  callbacks,  \* mark-mailed callbacks in flight
  modals,     \* fulfill-order and update-tracking submissions in flight
  airtable,   \* the Airtable table: the "Order" records posted to it
  args,       \* the arguments of a direct call of a function of the library
  summary,    \* the GET /admin/financial-summary request in flight
  out         \* what the last handler to end reported: its response or log line

vars == <<events, letters, orders, clock, theseus, slack, requests, payers,
          polls, callbacks, modals, airtable, args, summary, out>>

\* request tasks that may be in flight at once
Requesters == {"r1", "r2"}
\* the two ways of marking an Event paid: POST /admin/events/{id}/mark-paid
\* and the Slack modal "mark_event_paid"
PayChannels == {"admin", "modal"}
\* the scheduled job (apscheduler runs one instance at a time) and the run
\* triggered by POST /admin/check-letter-status
PollRuns == {"scheduled", "manual"}
\* the two interactive channels
Channels == {"socket", "http"}

\* Mail Gateway letter ids
TheseusIds == 1..MaxCreates
\* public order ids the generator may draw (random.choices over 62^7)
OrderIdSpace == {"aaaaaaa", "bbbbbbb"}

LetterIndex == DOMAIN letters
OrderIndex == DOMAIN orders

\* a response or log line: the operation, who ran it, what happened, the row
\* it was about and the numbers it reported
Report(op, who, tag, row, nums) ==
  [op |-> op, who |-> who, tag |-> tag, row |-> row, nums |-> nums]
NoReport == Report("none", "none", "none", 0, <<>>)

\* no direct call is being made
NoArgs == <<>>

(* ------------------------------------------------------------------ *)
(* The ORM unit of work (database.py get_sessionmaker: autoflush off,  *)
(* expire_on_commit off). A flush writes, for each object changed in   *)
(* the session, the columns whose value differs from the loaded one.   *)
(* ------------------------------------------------------------------ *)

\* the UPDATE that commit() emits for one object: row is the committed row,
\* loaded the values the session read, mem the values now held in memory
orm_flush(row, loaded, mem) ==
  [f \in DOMAIN row |->
     IF f \in DOMAIN mem /\ mem[f] # loaded[f] THEN mem[f] ELSE row[f]]

(* ------------------------------------------------------------------ *)
(* create_letter (main.py 243-403)                                     *)
(* ------------------------------------------------------------------ *)

NoRequest == [mail_type |-> LETTERMAIL, country |-> <<>>, weight_grams |-> None]
NoEvent == [balance_due_cents |-> 0, letter_count |-> 0, is_paid |-> FALSE]
\* schemas.py 121-133 OrderCreate: the order text and the requester's
\* personal and shipping data
NoOrderCreate ==
  [order_text |-> "", first_name |-> "", last_name |-> "", email |-> None,
   phone_number |-> None, address_line_1 |-> "", city |-> ""]

RequestIdle ==
  [pc |-> "idle", op |-> "none", event_id |-> 0, loaded |-> NoEvent,
   req |-> NoRequest, cost_cents |-> 0, letter_id |-> None, order_id |-> "",
   order |-> NoOrderCreate]

\* request.weight_grams and request.weight_grams > 500 (main.py 255)
OverweightBubblePacket(req) ==
  /\ req.mail_type = BUBBLE_PACKET
  /\ ~IsNone(req.weight_grams)
  /\ Val(req.weight_grams) > 500

\* (a faulty variant, for comparison: a validation error is treated like the
\* quote-required signal)
request_cost_lenient(req) ==
  LET c == calculate_cost(req.mail_type, req.country, req.weight_grams)
  IN  IF c.kind = "ParcelQuoteRequired" \/ c.kind = "CostCalculationError"
      THEN Ok(0) ELSE c
\* main.py 254-270: the cost, or the HTTP 400
request_cost(req) ==
  IF OverweightBubblePacket(req) THEN CostCalculationError
  ELSE LET c == calculate_cost(req.mail_type, req.country, req.weight_grams)
       IN  IF c.kind = "ParcelQuoteRequired" THEN Ok(0) ELSE c

\* main.py 330-338: UPDATE events SET letter_count = letter_count + n,
\* balance_due_cents = balance_due_cents + cost WHERE id = :id, evaluated by
\* the database on the committed row; loaded is the Event object that
\* verify_event_api_key read, which the statement does not use
\* (a faulty variant, for comparison: read-modify-write from the loaded object)
EventIncrementFromLoaded(row, loaded, cost, n) ==
  [row EXCEPT !.balance_due_cents = loaded.balance_due_cents + cost,
              !.letter_count = loaded.letter_count + n]
\* (a faulty variant, for comparison: the cost is taken off the balance)
EventIncrementRefund(row, loaded, cost, n) ==
  [row EXCEPT !.balance_due_cents = @ - cost, !.letter_count = @ + n]
\* (a faulty variant, for comparison: every charge counted as a Letter)
EventIncrementCountingOrders(row, loaded, cost, n) ==
  [row EXCEPT !.balance_due_cents = @ + cost, !.letter_count = @ + 1]
EventIncrement(row, loaded, cost, n) ==
  [row EXCEPT !.balance_due_cents = @ + cost, !.letter_count = @ + n]

\* main.py 285-303: what create_letter does with the Mail Gateway's answer.
\* "ok": 2xx with an id; "no_id": 2xx, body without "id"; "error": non-2xx,
\* timeout or connection error (TheseusAPIError)
\* (a faulty variant, for comparison: the error is not raised)
gateway_accepts_always(gw) == TRUE
gateway_accepts(gw) == gw # "error"

\* main.py 254-305: validation, cost, then theseus_client.create_letter
create_letter_call(r, e, req, gw) ==
  /\ requests[r].pc = "idle"
  /\ LET cost == request_cost(req)
         held == [RequestIdle EXCEPT !.op = "letter", !.event_id = e,
                                     !.loaded = events[e], !.req = req,
                                     !.pc = "created", !.cost_cents = cost.cents]
     IN
     IF cost.kind = "CostCalculationError"
     THEN /\ out' = Report("create_letter", r, "400", 0, <<>>)
          /\ UNCHANGED <<requests, theseus>>
     ELSE IF ~gateway_accepts(gw)
     THEN \* send_error_notification, then HTTP 502
          /\ out' = Report("create_letter", r, "502", 0, <<>>)
          /\ UNCHANGED <<requests, theseus>>
     ELSE IF gw = "ok"
     THEN /\ theseus < MaxCreates
          /\ theseus' = theseus + 1
          /\ requests' = [requests EXCEPT ![r] =
                [held EXCEPT !.letter_id = Some(theseus + 1)]]
          /\ UNCHANGED out
     ELSE /\ requests' = [requests EXCEPT ![r] = held]
          /\ UNCHANGED <<theseus, out>>
  /\ UNCHANGED <<args, summary, modals, airtable, events, letters, orders, clock, slack, payers, polls, callbacks>>

\* the channel of the handle chat_postMessage returned: response["ts"] and
\* response["channel"] are stored together or not at all
notification_channel(ts) == IF IsNone(ts) THEN None ELSE Some("channel")

NewLetter(q, ts) ==
  [letter_id |-> q.letter_id, event_id |-> q.event_id,
   mail_type |-> q.req.mail_type, country |-> q.req.country,
   weight_grams |-> q.req.weight_grams, cost_cents |-> q.cost_cents,
   status |-> QUEUED, mailed_at |-> None, slack_message_ts |-> ts,
   slack_channel_id |-> notification_channel(ts)]

\* main.py 307-373: the ledger write, the notifications, the commit.
\* posted: send_letter_created_notification returned a handle (else it raised
\* and the error was logged); quote: what send_parcel_quote_request did
\* ("sent", "logged": SlackApiError caught inside it, "raised": any other error)
create_letter_commit(r, posted, quote) ==
  LET q == requests[r]
      id == IF IsNone(q.letter_id) THEN 0 ELSE Val(q.letter_id)
      parcel == q.req.mail_type = PARCEL
  IN
  /\ q.pc = "created"
  /\ q.op = "letter"
  /\ requests' = [requests EXCEPT ![r] = RequestIdle]
  /\ IF id = 0
     THEN \* letters.letter_id is NOT NULL: flush() raises, get_db rolls back
          /\ out' = Report("create_letter", r, "500", 0, <<>>)
          /\ UNCHANGED <<events, letters, slack>>
     ELSE IF parcel /\ quote = "raised"
     THEN \* the error leaves create_letter: get_db rolls the transaction back
          /\ slack' = [slack EXCEPT !.created = IF posted THEN @ \cup {id} ELSE @]
          /\ out' = Report("create_letter", r, "500", 0, <<>>)
          /\ UNCHANGED <<events, letters>>
     ELSE /\ letters' = Append(letters, NewLetter(q, IF posted THEN Some(id) ELSE None))
          /\ events' = [events EXCEPT ![q.event_id] =
                EventIncrement(@, q.loaded, q.cost_cents, 1)]
          /\ slack' = [slack EXCEPT
                !.created = IF posted THEN @ \cup {id} ELSE @,
                !.quotes = IF parcel /\ quote = "sent" THEN @ \cup {id} ELSE @]
          /\ out' = Report("create_letter", r, "200", Len(letters) + 1,
                           <<q.event_id, q.cost_cents>>)
  /\ UNCHANGED <<args, summary, modals, airtable, orders, clock, theseus, payers, polls, callbacks>>

(* ------------------------------------------------------------------ *)
(* create_order (main.py 598-689)                                      *)
(* ------------------------------------------------------------------ *)

OrderIdsStored == {orders[i].order_id : i \in OrderIndex}

\* order ids inserted by a transaction that has flushed and not yet ended:
\* the unique index makes a second insert of the same id wait for it
OrderIdsPending(r) ==
  {requests[o].order_id : o \in {x \in Requesters \ {r} :
      requests[x].op = "order" /\ requests[x].pc = "flushed"}}

\* the Orders stored and the create_order requests in flight
OrdersBegun ==
  Len(orders) + Cardinality({x \in Requesters : requests[x].op = "order"})

\* main.py 611-616: generate_order_id until the id is not found in the table
create_order_generate(r, e, req, order_id) ==
  /\ requests[r].pc = "idle"
  /\ order_id \notin OrderIdsStored
  /\ requests' = [requests EXCEPT ![r] =
        [RequestIdle EXCEPT !.pc = "generated", !.op = "order", !.event_id = e,
                            !.loaded = events[e], !.order_id = order_id,
                            !.order = req]]
  /\ UNCHANGED <<args, summary, modals, airtable, events, letters, orders, clock, theseus, slack, payers, polls,
                 callbacks, out>>

\* main.py 620-628: db.add(order); flush(). The INSERT meets the unique
\* index on orders.order_id: IntegrityError (HTTP 500, rollback) if a
\* committed row has the id
\* (a faulty variant, for comparison: orders.order_id without unique=True)
no_unique_index(order_id) == FALSE
\* models.py 96: the unique index refuses an id a committed row has
unique_violation(order_id) == order_id \in OrderIdsStored

create_order_flush(r) ==
  LET q == requests[r] IN
  /\ q.pc = "generated"
  /\ q.op = "order"
  /\ q.order_id \notin OrderIdsPending(r)
  /\ IF unique_violation(q.order_id)
     THEN /\ requests' = [requests EXCEPT ![r] = RequestIdle]
          /\ out' = Report("create_order", r, "500", 0, <<>>)
     ELSE /\ requests' = [requests EXCEPT ![r] = [q EXCEPT !.pc = "flushed"]]
          /\ UNCHANGED out
  /\ UNCHANGED <<args, summary, modals, airtable, events, letters, orders, clock, theseus, slack, payers, polls,
                 callbacks>>

\* (a faulty variant, for comparison: the requester's name kept in the row)
NewOrderWithName(q, ts) ==
  [order_id |-> q.order_id, event_id |-> q.event_id,
   order_text |-> q.order.first_name,
   status |-> PENDING, tracking_code |-> None, fulfillment_note |-> None,
   slack_message_ts |-> ts, slack_channel_id |-> notification_channel(ts),
   fulfilled_at |-> None]
\* main.py 620-625 and 656-657: the row inserted (the columns id and
\* created_at are left out)
NewOrder(q, ts) ==
  [order_id |-> q.order_id, event_id |-> q.event_id,
   order_text |-> q.order.order_text,
   status |-> PENDING, tracking_code |-> None, fulfillment_note |-> None,
   slack_message_ts |-> ts, slack_channel_id |-> notification_channel(ts),
   fulfilled_at |-> None]

\* main.py 663-668: first and last name, address lines, city and the email
\* if there is one, joined by <br>
full_address(req) ==
  <<req.first_name, req.last_name, req.address_line_1, req.city>>
    \o (IF IsNone(req.email) THEN <<>> ELSE <<Val(req.email)>>)

\* main.py 670-679: the arguments of airtable_client.create_record
order_record(q) ==
  [first_name |-> q.order.first_name, last_name |-> q.order.last_name,
   email |-> IF IsNone(q.order.email) THEN "" ELSE Val(q.order.email),
   email_reason |-> "Order", record_id |-> q.order_id,
   contains |-> q.order.order_text, full_address |-> full_address(q.order)]

\* airtable_client.py 32-84: "no_key": no API key is configured and the call
\* is skipped; "posted": the record reached Airtable; "failed": the POST
\* did not get through, the error is logged
AirtableOutcomes == {"no_key", "posted", "failed"}
create_record(fields, outcome) == IF outcome = "posted" THEN {fields} ELSE {}

\* main.py 630-689: the $1 fee, the notification, the commit, the Airtable
\* record
create_order_commit(r, posted, record) ==
  LET q == requests[r] IN
  /\ q.pc = "flushed"
  /\ q.op = "order"
  /\ orders' = Append(orders, NewOrder(q, IF posted THEN Some(q.order_id) ELSE None))
  /\ airtable' = airtable \cup create_record(order_record(q), record)
  /\ events' = [events EXCEPT ![q.event_id] = EventIncrement(@, q.loaded, 100, 0)]
  /\ slack' = [slack EXCEPT !.orders = IF posted THEN @ \cup {q.order_id} ELSE @]
  /\ requests' = [requests EXCEPT ![r] = RequestIdle]
  /\ out' = Report("create_order", r, "200", Len(orders) + 1, <<q.event_id, 100>>)
  /\ UNCHANGED <<args, summary, modals, letters, clock, theseus, payers, polls, callbacks>>

(* ------------------------------------------------------------------ *)
(* mark-paid: mark_event_paid (main.py 406-437) and                    *)
(* handle_mark_event_paid_submission (slack_socket_handler.py 545-614) *)
(* ------------------------------------------------------------------ *)

PayerIdle == [pc |-> "idle", event_id |-> 0, loaded |-> NoEvent]

\* select(Event).where(Event.id == event_id); a missing Event ends the
\* operation (HTTP 404, or a logged error in the modal handler)
mark_event_paid_select(p, e) ==
  /\ payers[p].pc = "idle"
  /\ IF e \in EventIds
     THEN /\ payers' = [payers EXCEPT ![p] =
                [pc |-> "loaded", event_id |-> e, loaded |-> events[e]]]
          /\ UNCHANGED out
     ELSE /\ out' = Report("mark_paid", p, "404", e, <<>>)
          /\ UNCHANGED payers
  /\ UNCHANGED <<args, summary, modals, airtable, events, letters, orders, clock, theseus, slack, requests, polls,
                 callbacks>>

\* previous_balance = event.balance_due_cents; event.balance_due_cents = 0;
\* event.is_paid = True; commit(). The response (or the confirmation
\* message) carries previous_balance
mark_event_paid_commit(p) ==
  LET q == payers[p]
      previous_balance == q.loaded.balance_due_cents
      mem == [q.loaded EXCEPT !.balance_due_cents = 0, !.is_paid = TRUE]
  IN
  /\ q.pc = "loaded"
  /\ events' = [events EXCEPT ![q.event_id] = orm_flush(@, q.loaded, mem)]
  /\ payers' = [payers EXCEPT ![p] = PayerIdle]
  /\ out' = Report("mark_paid", p, "200", q.event_id, <<previous_balance>>)
  /\ UNCHANGED <<args, summary, modals, airtable, letters, orders, clock, theseus, slack, requests, polls, callbacks>>

(* ------------------------------------------------------------------ *)
(* Mail Gateway answers (theseus_client.py)                            *)
(* ------------------------------------------------------------------ *)

S_QUEUED == <<"q","u","e","u","e","d">>
S_PROCESSING == <<"p","r","o","c","e","s","s","i","n","g">>
S_SHIPPED == <<"s","h","i","p","p","e","d">>
S_FAILED == <<"f","a","i","l","e","d">>

\* a faulty variant, for comparison: an unknown value read as queued
LetterStatusOrQueued(value) ==
  IF value = S_PROCESSING THEN Some(PROCESSING)
  ELSE IF value = S_SHIPPED THEN Some(SHIPPED)
  ELSE IF value = S_FAILED THEN Some(FAILED)
  ELSE Some(QUEUED)
\* LetterStatus(value): the member with that value, or ValueError (None)
LetterStatusOf(value) ==
  IF value = S_QUEUED THEN Some(QUEUED)
  ELSE IF value = S_PROCESSING THEN Some(PROCESSING)
  ELSE IF value = S_SHIPPED THEN Some(SHIPPED)
  ELSE IF value = S_FAILED THEN Some(FAILED)
  ELSE None

\* what GET /letters/{id} may answer: TheseusAPIError (404, non-200, timeout,
\* connection error), or a body whose "status" is one of these strings; the
\* empty string stands for a body without "status" (.get("status", ""))
TheseusAPIError == "TheseusAPIError"
StatusStrings ==
  { S_QUEUED, S_PROCESSING, S_SHIPPED, S_FAILED,
    <<"S","h","i","p","p","e","d">>,
    <<"p","e","n","d","i","n","g">>,
    <<>> }
StatusAnswers ==
  {[raised |-> TRUE, status |-> <<>>]}
    \cup {[raised |-> FALSE, status |-> t] : t \in StatusStrings}

\* what POST /letters/{id}/mark_mailed may do, and what mark_letter_mailed
\* makes of it (theseus_client.py 151-195)
MarkMailedResponses == {"200", "404", "500", "timeout", "connect"}
mark_letter_mailed(response) ==
  IF response = "200" THEN "ok" ELSE TheseusAPIError

\* what a Notification Gateway edit may do: "ok"; "logged": SlackApiError,
\* caught inside update_letter_shipped (slack_bot.py 215-225); "raised": any
\* other error of the client (connection, timeout), which leaves the method
EditOutcomes == {"ok", "logged", "raised"}

(* ------------------------------------------------------------------ *)
(* check_all_pending_letters (background_jobs.py 17-96)                *)
(* ------------------------------------------------------------------ *)

PollIdle ==
  [pc |-> "idle", batch |-> <<>>, idx |-> 0, mem |-> <<>>, base |-> <<>>,
   start |-> <<>>, checked |-> 0, updated |-> 0, mailed |-> 0]

\* the columns of a Letter the run reads and writes; start keeps what the
\* SELECT returned (line 41), for the record of what the run found
Cols(row) == [status |-> row.status, mailed_at |-> row.mailed_at]

\* background_jobs.py 37-39: the rows the SELECT returns
NonTerminal(row) == row.status \notin {SHIPPED, FAILED}

RECURSIVE Ascending(_)
Ascending(S) ==
  IF S = {} THEN <<>>
  ELSE LET m == CHOOSE x \in S : \A y \in S : x <= y
       IN  <<m>> \o Ascending(S \ {m})

\* background_jobs.py 30-43: open the session and load the batch
check_all_pending_letters_start(p) ==
  /\ polls[p].pc = "idle"
  /\ LET batch == Ascending({i \in LetterIndex : NonTerminal(letters[i])})
         snap == [k \in DOMAIN batch |-> Cols(letters[batch[k]])]
     IN  polls' = [polls EXCEPT ![p] =
            [PollIdle EXCEPT !.pc = "running", !.batch = batch, !.idx = 1,
                             !.mem = snap, !.base = snap,
                             !.start = snap]]
  /\ UNCHANGED <<args, summary, modals, airtable, events, letters, orders, clock, theseus, slack, requests, payers,
                 callbacks, out>>

\* a commit that would also price the Letter again
poll_commit_recalculating(rows, q) ==
  [i \in DOMAIN rows |->
     IF \E k \in DOMAIN q.batch : q.batch[k] = i
     THEN LET k == CHOOSE k \in DOMAIN q.batch : q.batch[k] = i
          IN  [orm_flush(rows[i], q.base[k], q.mem[k]) EXCEPT
                 !.cost_cents = calculate_lettermail_cost(<<"U","S">>)]
     ELSE rows[i]]

\* session.commit(): every object of the session that was changed is flushed
poll_commit(rows, q) ==
  [i \in DOMAIN rows |->
     IF \E k \in DOMAIN q.batch : q.batch[k] = i
     THEN LET k == CHOOSE k \in DOMAIN q.batch : q.batch[k] = i
          IN  orm_flush(rows[i], q.base[k], q.mem[k])
     ELSE rows[i]]

\* background_jobs.py 90-93: the except clauses are inside the loop, so
\* after the log line the for statement takes the next Letter
next_letter(q) == [q EXCEPT !.idx = @ + 1]

\* background_jobs.py 45-93: one iteration of the loop, for batch[idx].
\* answer is what get_letter_status did, edit what update_letter_shipped did
\* (where it is not called, "ok" stands for every outcome)
check_all_pending_letters_step(p, answer, edit) ==
  LET q == polls[p]
      k == q.idx
      i == q.batch[k]
      parsed == LetterStatusOf(Lower(answer.status))
      counted == [q EXCEPT !.checked = @ + 1]
  IN
  /\ q.pc = "running"
  /\ q.idx <= Len(q.batch)
  /\ \/ \* TheseusAPIError: logged, next Letter
        /\ answer.raised
        /\ polls' = [polls EXCEPT ![p] = next_letter(counted)]
        /\ edit = "ok"
        /\ out' = Report("poll", p, "error", i, <<>>)
        /\ UNCHANGED <<letters, clock, slack>>
     \/ \* ValueError: unknown status, logged, continue
        /\ ~answer.raised
        /\ IsNone(parsed)
        /\ polls' = [polls EXCEPT ![p] = next_letter(counted)]
        /\ edit = "ok"
        /\ out' = Report("poll", p, "unknown", i, <<>>)
        /\ UNCHANGED <<letters, clock, slack>>
     \/ \* same status as the Letter held in memory: nothing to do, no commit
        /\ ~answer.raised
        /\ ~IsNone(parsed)
        /\ Val(parsed) = q.mem[k].status
        /\ polls' = [polls EXCEPT ![p] = next_letter(counted)]
        /\ edit = "ok"
        /\ out' = Report("poll", p, "same", i, <<>>)
        /\ UNCHANGED <<letters, clock, slack>>
     \/ \* a new status other than shipped: set it and commit
        /\ ~answer.raised
        /\ ~IsNone(parsed)
        /\ Val(parsed) # q.mem[k].status
        /\ Val(parsed) # SHIPPED
        /\ LET changed == [counted EXCEPT !.mem[k].status = Val(parsed),
                                          !.updated = @ + 1]
           IN  /\ letters' = poll_commit(letters, changed)
               /\ polls' = [polls EXCEPT ![p] =
                     next_letter([changed EXCEPT !.base = changed.mem])]
        /\ edit = "ok"
        /\ out' = Report("poll", p, "changed", i, <<>>)
        /\ UNCHANGED <<clock, slack>>
     \/ \* shipped: stamp mailed_at, edit the message if there is one, commit
        /\ ~answer.raised
        /\ ~IsNone(parsed)
        /\ Val(parsed) # q.mem[k].status
        /\ Val(parsed) = SHIPPED
        /\ clock < MaxClock
        /\ clock' = clock + 1
        /\ LET changed == [counted EXCEPT !.mem[k].status = SHIPPED,
                                          !.mem[k].mailed_at = Some(clock + 1),
                                          !.updated = @ + 1, !.mailed = @ + 1]
               handle == letters[i].slack_message_ts
           IN
           IF ~IsNone(handle) /\ edit = "raised"
           THEN \* except Exception (line 92): logged, no commit for this Letter
                /\ polls' = [polls EXCEPT ![p] = next_letter(changed)]
                /\ out' = Report("poll", p, "raised", i, <<>>)
                /\ UNCHANGED <<letters, slack>>
           ELSE /\ letters' = poll_commit(letters, changed)
                /\ slack' = [slack EXCEPT !.edits[Val(letters[i].letter_id)] =
                      IF ~IsNone(handle) /\ edit = "ok" THEN @ + 1 ELSE @]
                /\ polls' = [polls EXCEPT ![p] =
                      next_letter([changed EXCEPT !.base = changed.mem])]
                /\ out' = Report("poll", p, "shipped", i, <<>>)
  /\ UNCHANGED <<args, summary, modals, airtable, events, orders, theseus, requests, payers, callbacks>>

\* background_jobs.py 95-96: after the last Letter the session is closed
\* (what was set and not committed is dropped) and the counts are returned
check_all_pending_letters_return(p) ==
  LET q == polls[p] IN
  /\ q.pc = "running"
  /\ q.idx > Len(q.batch)
  /\ polls' = [polls EXCEPT ![p] = PollIdle]
  /\ out' = Report("poll", p, "complete", Len(q.batch),
                   <<q.checked, q.updated, q.mailed>>)
  /\ UNCHANGED <<args, summary, modals, airtable, events, letters, orders, clock, theseus, slack, requests, payers,
                 callbacks>>

(* ------------------------------------------------------------------ *)
(* The mark-mailed callback: handle_mark_mailed                        *)
(* (slack_socket_handler.py 24-75) on the Socket Mode channel and the   *)
(* mark_mailed branch of handle_slack_interactions (main.py 1006-1040) *)
(* on the HTTP channel                                                 *)
(* ------------------------------------------------------------------ *)

\* the Slack users: the operator of settings.slack_jenin_user_id
\* (config.py) and another member of the workspace
slack_jenin_user_id == "U_JENIN"
SlackUsers == {slack_jenin_user_id, "U_OTHER"}

\* main.py 902-910: handle_slack_interactions answers "Unauthorized" to
\* every payload whose user is not the operator, before it looks at the
\* payload's type; the Socket Mode handlers never read the user
unauthorized(channel, user) == channel = "http" /\ user # slack_jenin_user_id

CallbackIdle ==
  [pc |-> "idle", user |-> "none", row |-> 0,
   loaded |-> [status |-> QUEUED, mailed_at |-> None]]

\* the row select(Letter).where(Letter.letter_id == letter_id) returns, or 0
LetterRow(letter_id) ==
  IF \E i \in LetterIndex : letters[i].letter_id = Some(letter_id)
  THEN CHOOSE i \in LetterIndex : letters[i].letter_id = Some(letter_id)
  ELSE 0

\* the guard before the Mail Gateway call: slack_socket_handler.py 44-46
\* returns on a shipped Letter; main.py 1013 has no such test
already_shipped_guard(channel, status) == channel = "socket" /\ status = SHIPPED

\* a press of the button by a user: the test of the user, the select and
\* the guards, up to the await of mark_letter_mailed
handle_mark_mailed_press(ch, user, letter_id) ==
  LET i == LetterRow(letter_id) IN
  /\ callbacks[ch].pc = "idle"
  /\ IF unauthorized(ch, user)
     THEN /\ out' = Report("mark_mailed", ch, "unauthorized", 0, <<>>)
          /\ UNCHANGED callbacks
     ELSE IF i = 0
     THEN /\ out' = Report("mark_mailed", ch, "not_found", 0, <<>>)
          /\ UNCHANGED callbacks
     ELSE IF already_shipped_guard(ch, letters[i].status)
     THEN /\ out' = Report("mark_mailed", ch, "already_shipped", i, <<>>)
          /\ UNCHANGED callbacks
     ELSE /\ callbacks' = [callbacks EXCEPT ![ch] =
                [pc |-> "loaded", user |-> user, row |-> i,
                 loaded |-> Cols(letters[i])]]
          /\ UNCHANGED out
  /\ UNCHANGED <<args, summary, modals, airtable, events, letters, orders, clock, theseus, slack, requests, payers,
                 polls>>

\* the operator's press
handle_mark_mailed_select(ch, letter_id) ==
  handle_mark_mailed_press(ch, slack_jenin_user_id, letter_id)

\* what the handler holds in memory after the Mail Gateway call: result is
\* what mark_letter_mailed returned or raised, now the utcnow() reading
mark_mailed(loaded, result, now) ==
  [status |-> SHIPPED, mailed_at |-> Some(now)]

\* from the Mail Gateway call to the commit. response is what the gateway
\* did, edit what update_letter_shipped did
handle_mark_mailed_commit(ch, response, edit) ==
  LET q == callbacks[ch]
      i == q.row
      result == mark_letter_mailed(response)
      mem == mark_mailed(q.loaded, result, clock + 1)
      handle == letters[i].slack_message_ts
      tag == IF result = TheseusAPIError THEN "gateway_failed" ELSE "gateway_ok"
  IN
  /\ q.pc = "loaded"
  /\ clock < MaxClock
  /\ clock' = clock + 1
  /\ callbacks' = [callbacks EXCEPT ![ch] = CallbackIdle]
  /\ IF ~IsNone(handle) /\ edit = "raised"
     THEN \* the error leaves the handler: the session ends without a commit
          /\ out' = Report("mark_mailed", ch, "raised", i, <<>>)
          /\ UNCHANGED <<letters, slack>>
     ELSE /\ letters' = [letters EXCEPT ![i] = orm_flush(@, q.loaded, mem)]
          /\ slack' = [slack EXCEPT !.edits[Val(letters[i].letter_id)] =
                IF ~IsNone(handle) /\ edit = "ok" THEN @ + 1 ELSE @]
          /\ out' = Report("mark_mailed", ch, tag, i, <<>>)
  /\ UNCHANGED <<args, summary, modals, airtable, events, orders, theseus, requests, payers, polls>>

(* ------------------------------------------------------------------ *)
(* The Order modals: handle_fulfill_order_modal and                    *)
(* handle_update_tracking_modal (slack_socket_handler.py 125-222) on   *)
(* the Socket Mode channel, the view_submission branches of            *)
(* handle_slack_interactions (main.py 915-997) on the HTTP channel     *)
(* ------------------------------------------------------------------ *)

\* a text of n characters, as a modal's input field carries it
Text(n) == [i \in 1..n |-> "x"]

\* the tracking codes and notes submitted: the field left empty (Slack sends
\* null), the empty text, and texts at and beyond the limits of 64 and 500
TrackingInputs == {None, Some(Text(0)), Some(Text(1)), Some(Text(64)), Some(Text(65))}
NoteInputs == {None, Some(Text(500)), Some(Text(501))}

\* Python truthiness of an optional text: neither None nor ""
Truthy(text) == ~IsNone(text) /\ Len(Val(text)) > 0

NoOrder ==
  [order_id |-> "", event_id |-> 0, order_text |-> "", status |-> PENDING,
   tracking_code |-> None, fulfillment_note |-> None, slack_message_ts |-> None,
   slack_channel_id |-> None, fulfilled_at |-> None]

ModalIdle ==
  [pc |-> "idle", user |-> "none", op |-> "none", row |-> 0, loaded |-> NoOrder,
   tracking_code |-> None, fulfillment_note |-> None]

\* the row select(Order).where(Order.order_id == order_id) returns, or 0
OrderRow(order_id) ==
  IF \E i \in OrderIndex : orders[i].order_id = order_id
  THEN CHOOSE i \in OrderIndex : orders[i].order_id = order_id
  ELSE 0

\* (a faulty variant, for comparison: the note's length is not tested)
fulfill_errors_tracking_only(tracking_code, fulfillment_note) ==
  IF Truthy(tracking_code) /\ Len(Val(tracking_code)) > 64
  THEN {"tracking_code_block"} ELSE {}
\* slack_socket_handler.py 135-139, main.py 923-927: the errors dict, as the
\* set of its keys
fulfill_errors(tracking_code, fulfillment_note) ==
  (IF Truthy(tracking_code) /\ Len(Val(tracking_code)) > 64
   THEN {"tracking_code_block"} ELSE {})
  \cup
  (IF Truthy(fulfillment_note) /\ Len(Val(fulfillment_note)) > 500
   THEN {"fulfillment_note_block"} ELSE {})

\* slack_socket_handler.py 187-192, main.py 966-969
update_tracking_errors(tracking_code) ==
  IF ~Truthy(tracking_code) \/ Len(Val(tracking_code)) < 1
  THEN {"tracking_code_block"}
  ELSE IF Len(Val(tracking_code)) > 64 THEN {"tracking_code_block"} ELSE {}

\* the response_action "errors" and the blocks it names
ErrorsTag(errors) ==
  IF errors = {"tracking_code_block"} THEN "errors: tracking_code_block"
  ELSE IF errors = {"fulfillment_note_block"} THEN "errors: fulfillment_note_block"
  ELSE "errors: tracking_code_block, fulfillment_note_block"

\* a user's modal submission up to the select of the Order: the test of the
\* user, the validation, the acknowledgement, the select
modal_submit(ch, user, op, errors, order_id, tracking_code, fulfillment_note) ==
  LET i == OrderRow(order_id) IN
  /\ modals[ch].pc = "idle"
  /\ IF unauthorized(ch, user)
     THEN /\ out' = Report(op, ch, "unauthorized", 0, <<>>)
          /\ UNCHANGED modals
     ELSE IF errors # {}
     THEN /\ out' = Report(op, ch, ErrorsTag(errors), i, <<>>)
          /\ UNCHANGED modals
     ELSE IF i = 0
     THEN /\ out' = Report(op, ch, "not_found", 0, <<>>)
          /\ UNCHANGED modals
     ELSE /\ modals' = [modals EXCEPT ![ch] =
                [pc |-> "loaded", user |-> user, op |-> op, row |-> i,
                 loaded |-> orders[i],
                 tracking_code |-> tracking_code,
                 fulfillment_note |-> fulfillment_note]]
          /\ UNCHANGED out
  /\ UNCHANGED <<args, summary, events, letters, orders, clock, theseus, slack, requests,
                 payers, polls, callbacks, airtable>>

\* the operator's submission
modal_select(ch, op, errors, order_id, tracking_code, fulfillment_note) ==
  modal_submit(ch, slack_jenin_user_id, op, errors, order_id, tracking_code,
               fulfillment_note)

handle_fulfill_order_modal_submit(ch, user, order_id, tracking_code, fulfillment_note) ==
  modal_submit(ch, user, "fulfill",
               fulfill_errors(tracking_code, fulfillment_note),
               order_id, tracking_code, fulfillment_note)

handle_update_tracking_modal_submit(ch, user, order_id, tracking_code) ==
  modal_submit(ch, user, "update_tracking",
               update_tracking_errors(tracking_code), order_id, tracking_code, None)

handle_fulfill_order_modal_select(ch, order_id, tracking_code, fulfillment_note) ==
  modal_select(ch, "fulfill", fulfill_errors(tracking_code, fulfillment_note),
               order_id, tracking_code, fulfillment_note)

handle_update_tracking_modal_select(ch, order_id, tracking_code) ==
  modal_select(ch, "update_tracking", update_tracking_errors(tracking_code),
               order_id, tracking_code, None)

\* slack_socket_handler.py 152-155, main.py 934-937: what the fulfill handler
\* holds in memory before the commit
fulfill(loaded, tracking_code, fulfillment_note, now) ==
  [loaded EXCEPT !.status = FULFILLED, !.fulfilled_at = Some(now),
                 !.tracking_code = tracking_code,
                 !.fulfillment_note = fulfillment_note]

\* (a faulty variant, for comparison: the note is cleared with the old code)
update_tracking_clears_note(loaded, tracking_code) ==
  [loaded EXCEPT !.tracking_code = tracking_code, !.fulfillment_note = None]
\* (a faulty variant, for comparison: the Order is put back to pending)
update_tracking_reopens(loaded, tracking_code) ==
  [loaded EXCEPT !.tracking_code = tracking_code, !.status = PENDING]
\* slack_socket_handler.py 203, main.py 975
update_tracking(loaded, tracking_code) ==
  [loaded EXCEPT !.tracking_code = tracking_code]

\* the message update_order_fulfilled writes (slack_bot.py 617-716)
FulfilledMessage(mem) ==
  [tracking_code |-> mem.tracking_code, fulfillment_note |-> mem.fulfillment_note,
   fulfilled_at |-> mem.fulfilled_at]

\* from the select of the Event to the commit: mem is what the handler holds
\* in memory, edit what chat_update did. update_order_fulfilled formats
\* fulfilled_at before the call: on an Order never fulfilled it raises
modal_commit(ch, mem, edit) ==
  LET q == modals[ch]
      i == q.row
      handle == ~IsNone(mem.slack_message_ts) /\ ~IsNone(mem.slack_channel_id)
      raised == handle /\ (IsNone(mem.fulfilled_at) \/ edit = "raised")
  IN
  /\ modals' = [modals EXCEPT ![ch] = ModalIdle]
  /\ IF raised
     THEN \* the error leaves the handler: the session ends without a commit
          /\ out' = Report(q.op, ch, "raised", i, <<>>)
          /\ UNCHANGED <<orders, slack>>
     ELSE /\ orders' = [orders EXCEPT ![i] = orm_flush(@, q.loaded, mem)]
          /\ slack' = [slack EXCEPT !.fulfilled[mem.order_id] =
                IF handle /\ edit = "ok" THEN Some(FulfilledMessage(mem)) ELSE @]
          /\ out' = Report(q.op, ch, "clear", i, <<>>)
  /\ UNCHANGED <<args, summary, events, letters, theseus, requests, payers, polls,
                 callbacks, airtable>>

handle_fulfill_order_modal_commit(ch, edit) ==
  LET q == modals[ch] IN
  /\ q.pc = "loaded"
  /\ q.op = "fulfill"
  /\ clock < MaxClock
  /\ clock' = clock + 1
  /\ modal_commit(ch, fulfill(q.loaded, q.tracking_code, q.fulfillment_note,
                              clock + 1), edit)

handle_update_tracking_modal_commit(ch, edit) ==
  LET q == modals[ch] IN
  /\ q.pc = "loaded"
  /\ q.op = "update_tracking"
  /\ UNCHANGED clock
  /\ modal_commit(ch, update_tracking(q.loaded, q.tracking_code), edit)

(* ------------------------------------------------------------------ *)
(* get_financial_summary (main.py 440-486); update_financial_canvas    *)
(* (main.py 838-886) runs the same queries and the same loop            *)
(* ------------------------------------------------------------------ *)

\* cents_to_usd (cost_calculator.py 120-122): round(cents / 100, 2), the
\* amount with two decimal places, kept as <<dollars, hundredths>>
cents_to_usd(cents) == <<cents \div 100, cents % 100>>

SummaryIdle ==
  [pc |-> "idle", events |-> <<>>, idx |-> 0, unpaid_events |-> <<>>,
   total_due_cents |-> 0, total_ca |-> 0, total_us |-> 0, total_int |-> 0]

\* a faulty variant, for comparison: the Events not yet marked paid
unmarked_events == {e \in EventIds : ~events[e].is_paid}
\* main.py 446: select(Event).where(Event.balance_due_cents > 0)
unpaid_event_ids == {e \in EventIds : events[e].balance_due_cents > 0}

\* main.py 446-448: the first query
get_financial_summary_select ==
  /\ summary.pc = "idle"
  /\ LET ids == Ascending(unpaid_event_ids)
     IN  summary' = [SummaryIdle EXCEPT
            !.pc = "running", !.idx = 1,
            !.events = [k \in DOMAIN ids |->
                          [id |-> ids[k],
                           balance_due_cents |-> events[ids[k]].balance_due_cents,
                           letter_count |-> events[ids[k]].letter_count]]]
  /\ UNCHANGED <<args, events, letters, orders, clock, theseus, slack, requests,
                 payers, polls, callbacks, modals, airtable, out>>

\* sum(1 for c in countries if get_stamp_region(c) == region)
RECURSIVE count_region(_, _)
count_region(countries, region) ==
  IF countries = <<>> THEN 0
  ELSE (IF get_stamp_region(Head(countries)) = region THEN 1 ELSE 0)
       + count_region(Tail(countries), region)

\* main.py 461-463: select(Letter.country).where(Letter.event_id == event.id)
RECURSIVE countries_of(_, _)
countries_of(rows, event_id) ==
  IF rows = <<>> THEN <<>>
  ELSE (IF Head(rows).event_id = event_id THEN <<Head(rows).country>> ELSE <<>>)
       \o countries_of(Tail(rows), event_id)

\* main.py 456-480: one iteration of the loop, for events[idx]
get_financial_summary_event ==
  LET q == summary
      event == q.events[q.idx]
      countries == countries_of(letters, event.id)
      ca_count == count_region(countries, "CA")
      us_count == count_region(countries, "US")
      int_count == count_region(countries, "INT")
  IN
  /\ q.pc = "running"
  /\ q.idx <= Len(q.events)
  /\ summary' = [q EXCEPT
        !.idx = @ + 1,
        !.unpaid_events = Append(@,
           [event_id |-> event.id,
            balance_due_usd |-> cents_to_usd(event.balance_due_cents),
            letter_count |-> event.letter_count,
            stamps |-> [canada |-> ca_count, us |-> us_count,
                        international |-> int_count]]),
        !.total_due_cents = @ + event.balance_due_cents,
        !.total_ca = @ + ca_count,
        !.total_us = @ + us_count,
        !.total_int = @ + int_count]
  /\ UNCHANGED <<args, events, letters, orders, clock, theseus, slack, requests,
                 payers, polls, callbacks, modals, airtable, out>>

\* main.py 482-486: the response
FinancialSummaryResponse(q) ==
  [unpaid_events |-> q.unpaid_events,
   total_due_usd |-> cents_to_usd(q.total_due_cents),
   total_stamps |-> [canada |-> q.total_ca, us |-> q.total_us,
                     international |-> q.total_int]]

get_financial_summary_return ==
  /\ summary.pc = "running"
  /\ summary.idx > Len(summary.events)
  /\ summary' = SummaryIdle
  /\ out' = Report("get_financial_summary", "admin", "200",
                   Len(summary.unpaid_events), <<>>)
  /\ UNCHANGED <<args, events, letters, orders, clock, theseus, slack, requests,
                 payers, polls, callbacks, modals, airtable>>

(* ------------------------------------------------------------------ *)
(* The system                                                          *)
(* ------------------------------------------------------------------ *)

Str_Canada == <<"C","a","n","a","d","a">>
Str_usa == <<" ","U","S","A"," ">>
Str_France == <<"F","r","a","n","c","e">>

\* the create_letter requests explored
LetterRequests ==
  { [mail_type |-> LETTERMAIL, country |-> Str_Canada, weight_grams |-> None],
    [mail_type |-> BUBBLE_PACKET, country |-> Str_usa, weight_grams |-> Some(150)],
    [mail_type |-> BUBBLE_PACKET, country |-> Str_Canada, weight_grams |-> Some(501)],
    [mail_type |-> BUBBLE_PACKET, country |-> Str_France, weight_grams |-> None],
    [mail_type |-> PARCEL, country |-> Str_France, weight_grams |-> None],
    [mail_type |-> PARCEL, country |-> Str_France, weight_grams |-> Some(1000)] }

\* scripts/create_api_key.py 40-47: an Event starts with no balance, no
\* Letters and unpaid; nothing is in flight
Init ==
  /\ events = [e \in EventIds |-> NoEvent]
  /\ letters = <<>>
  /\ orders = <<>>
  /\ clock = 0
  /\ theseus = 0
  /\ slack = [created |-> {}, quotes |-> {}, orders |-> {},
              edits |-> [i \in TheseusIds |-> 0],
              fulfilled |-> [o \in OrderIdSpace |-> None]]
  /\ requests = [r \in Requesters |-> RequestIdle]
  /\ payers = [p \in PayChannels |-> PayerIdle]
  /\ polls = [p \in PollRuns |-> PollIdle]
  /\ callbacks = [c \in Channels |-> CallbackIdle]
  /\ modals = [c \in Channels |-> ModalIdle]
  /\ airtable = {}
  /\ args = NoArgs
  /\ summary = SummaryIdle
  /\ out = NoReport

CreateAnswers == {"ok", "no_id", "error"}
QuoteOutcomes == {"sent", "logged", "raised"}

\* POST /api/v1/letters
RequestSteps(Rs, Es, Reqs, Gws, Posts) ==
  \/ \E r \in Rs, e \in Es, req \in Reqs, gw \in Gws :
        create_letter_call(r, e, req, gw)
  \/ \E r \in Rs, posted \in Posts, quote \in QuoteOutcomes :
        create_letter_commit(r, posted, quote)

\* the create_order requests explored: with and without the optional email
\* and phone number
Order_Ada ==
  [order_text |-> "order text", first_name |-> "Ada", last_name |-> "Lovelace",
   email |-> Some("ada@example.org"), phone_number |-> Some("555-0100"),
   address_line_1 |-> "12 St James Square", city |-> "London"]
Order_Alan ==
  [order_text |-> "order text", first_name |-> "Alan", last_name |-> "Turing",
   email |-> None, phone_number |-> None,
   address_line_1 |-> "43 Adlington Road", city |-> "Wilmslow"]
OrderRequests == {Order_Ada, Order_Alan}

\* POST /api/v1/order; at most Cap Orders are begun
OrderSteps(Rs, Es, Reqs, Cap, Records) ==
  \/ \E r \in Rs, e \in Es, req \in Reqs, o \in OrderIdSpace :
        OrdersBegun < Cap /\ create_order_generate(r, e, req, o)
  \/ \E r \in Rs : create_order_flush(r)
  \/ \E r \in Rs, posted \in BOOLEAN, record \in Records :
        create_order_commit(r, posted, record)

\* the Order modals' submissions
ModalSteps(Chs, Tracks, Notes) ==
  \/ \E ch \in Chs, o \in OrderIdSpace, t \in Tracks, n \in Notes :
        handle_fulfill_order_modal_select(ch, o, t, n)
  \/ \E ch \in Chs, edit \in EditOutcomes :
        handle_fulfill_order_modal_commit(ch, edit)
  \/ \E ch \in Chs, o \in OrderIdSpace, t \in Tracks :
        handle_update_tracking_modal_select(ch, o, t)
  \/ \E ch \in Chs, edit \in EditOutcomes :
        handle_update_tracking_modal_commit(ch, edit)

\* the operator submits one modal at a time
NoModalInFlight == \A ch \in Channels : modals[ch].pc = "idle"

ModalStepsInTurn(Tracks, Notes, Edits) ==
  \/ /\ NoModalInFlight
     /\ \E ch \in Channels, o \in OrderIdSpace, t \in Tracks, n \in Notes :
           handle_fulfill_order_modal_select(ch, o, t, n)
  \/ \E ch \in Channels, edit \in Edits :
        handle_fulfill_order_modal_commit(ch, edit)
  \/ /\ NoModalInFlight
     /\ \E ch \in Channels, o \in OrderIdSpace, t \in Tracks :
           handle_update_tracking_modal_select(ch, o, t)
  \/ \E ch \in Channels, edit \in Edits :
        handle_update_tracking_modal_commit(ch, edit)

PaySteps(Ps, Es) ==
  \/ \E p \in Ps, e \in Es : mark_event_paid_select(p, e)
  \/ \E p \in Ps : mark_event_paid_commit(p)

PollSteps(Ps) ==
  \/ \E p \in Ps : check_all_pending_letters_start(p)
  \/ \E p \in Ps, answer \in StatusAnswers, edit \in EditOutcomes :
        check_all_pending_letters_step(p, answer, edit)
  \/ \E p \in Ps : check_all_pending_letters_return(p)

CallbackSteps(Chs) ==
  \/ \E ch \in Chs, id \in TheseusIds : handle_mark_mailed_select(ch, id)
  \/ \E ch \in Chs, response \in MarkMailedResponses, edit \in EditOutcomes :
        handle_mark_mailed_commit(ch, response, edit)

\* the operator presses one button at a time
NoCallbackInFlight == \A ch \in Channels : callbacks[ch].pc = "idle"

CallbackStepsInTurn ==
  \/ /\ NoCallbackInFlight
     /\ \E ch \in Channels, id \in TheseusIds : handle_mark_mailed_select(ch, id)
  \/ \E ch \in Channels, response \in MarkMailedResponses, edit \in EditOutcomes :
        handle_mark_mailed_commit(ch, response, edit)

\* the whole system
Next ==
  \/ RequestSteps(Requesters, EventIds, LetterRequests, CreateAnswers, BOOLEAN)
  \/ OrderSteps(Requesters, EventIds, OrderRequests, MaxOrders, AirtableOutcomes)
  \/ PaySteps(PayChannels, EventIds \cup {0})
  \/ PollSteps(PollRuns)
  \/ CallbackSteps(Channels)
  \/ ModalSteps(Channels, TrackingInputs, NoteInputs)

Spec == Init /\ [][Next]_vars

\* letter creation: one request at a time, every kind of request and every
\* answer of the gateways
NextCreate ==
  RequestSteps({"r1"}, EventIds, LetterRequests, CreateAnswers, BOOLEAN)

SpecCreate == Init /\ [][NextCreate]_vars

\* the ledger of one Event: concurrent creations and mark-paid operations
LedgerRequests ==
  { [mail_type |-> BUBBLE_PACKET, country |-> Str_usa, weight_grams |-> Some(150)] }

NextLedger ==
  \/ RequestSteps(Requesters, {1}, LedgerRequests, {"ok"}, BOOLEAN)
  \/ OrderSteps(Requesters, {1}, {Order_Ada}, MaxOrders, {"no_key"})
  \/ PaySteps(PayChannels, {0, 1})

SpecLedger == Init /\ [][NextLedger]_vars

\* the reconciliation: Letters are created one request at a time; a poll run
\* and the mark-mailed callbacks of both channels interleave with them
ReconRequests ==
  { [mail_type |-> LETTERMAIL, country |-> Str_Canada, weight_grams |-> None] }

NextRecon ==
  \/ RequestSteps({"r1"}, {1}, ReconRequests, {"ok"}, {TRUE})
  \/ PollSteps({"scheduled"})
  \/ CallbackStepsInTurn

SpecRecon == Init /\ [][NextRecon]_vars

\* a poll run on its own: Letters are created, nothing else writes them
NextPoll ==
  \/ RequestSteps({"r1"}, {1}, ReconRequests, {"ok"}, BOOLEAN)
  \/ PollSteps({"scheduled"})

SpecPoll == Init /\ [][NextPoll]_vars

\* the life of an Order: it is created, the operator submits the modals of
\* either channel with every kind of input
NextOrders ==
  \/ OrderSteps({"r1"}, {1}, {Order_Ada}, MaxOrders, {"no_key"})
  \/ ModalStepsInTurn(TrackingInputs, NoteInputs, EditOutcomes)

SpecOrders == Init /\ [][NextOrders]_vars

\* the modals' inputs: every kind of tracking code and note, submitted on
\* either channel for an Order in any state; the notification edits succeed
NextModalInputs ==
  \/ OrderSteps({"r1"}, {1}, {Order_Ada}, MaxOrders, {"no_key"})
  \/ ModalStepsInTurn(TrackingInputs, NoteInputs, {"ok"})

SpecModalInputs == Init /\ [][NextModalInputs]_vars

\* order creation on its own: two requests in flight at once, more Orders
\* than the generator has ids to draw
NextOrderIds ==
  OrderSteps(Requesters, {1}, OrderRequests, MaxOrders + 1, {"no_key"})

SpecOrderIds == Init /\ [][NextOrderIds]_vars

\* order creation with every outcome of the Airtable call
NextPrivacy ==
  OrderSteps(Requesters, {1}, OrderRequests, MaxOrders + 1, AirtableOutcomes)

SpecPrivacy == Init /\ [][NextPrivacy]_vars

\* every operation that writes the database, one handler at a time: a
\* handler starts when nothing is in flight
Quiet ==
  /\ \A r \in Requesters : requests[r].pc = "idle"
  /\ \A p \in PayChannels : payers[p].pc = "idle"
  /\ \A p \in PollRuns : polls[p].pc = "idle"
  /\ NoCallbackInFlight
  /\ NoModalInFlight

FrameRequests ==
  { [mail_type |-> LETTERMAIL, country |-> Str_Canada, weight_grams |-> None],
    [mail_type |-> PARCEL, country |-> Str_France, weight_grams |-> Some(1000)] }
FrameAnswers ==
  { [raised |-> TRUE, status |-> <<>>],
    [raised |-> FALSE, status |-> S_PROCESSING],
    [raised |-> FALSE, status |-> S_SHIPPED] }
FrameTracks == {Some(Text(1)), Some(Text(64))}

NextFrame ==
  \/ Quiet /\ \E req \in FrameRequests, gw \in {"ok", "error"} :
                 create_letter_call("r1", 1, req, gw)
  \/ create_letter_commit("r1", TRUE, "sent")
  \/ Quiet /\ \E o \in OrderIdSpace :
                 OrdersBegun < MaxOrders /\ create_order_generate("r1", 1, Order_Ada, o)
  \/ create_order_flush("r1")
  \/ create_order_commit("r1", TRUE, "no_key")
  \/ Quiet /\ mark_event_paid_select("admin", 1)
  \/ mark_event_paid_commit("admin")
  \/ Quiet /\ check_all_pending_letters_start("scheduled")
  \/ \E answer \in FrameAnswers :
        check_all_pending_letters_step("scheduled", answer, "ok")
  \/ check_all_pending_letters_return("scheduled")
  \/ Quiet /\ \E id \in TheseusIds : handle_mark_mailed_select("socket", id)
  \/ \E response \in {"200", "500"} :
        handle_mark_mailed_commit("socket", response, "ok")
  \/ Quiet /\ \E o \in OrderIdSpace, t \in FrameTracks :
                 handle_fulfill_order_modal_select("http", o, t, None)
  \/ handle_fulfill_order_modal_commit("http", "ok")
  \/ Quiet /\ \E o \in OrderIdSpace, t \in FrameTracks :
                 handle_update_tracking_modal_select("http", o, t)
  \/ handle_update_tracking_modal_commit("http", "ok")

SpecFrame == Init /\ [][NextFrame]_vars

\* the creation notifications: letters and orders are created one request at
\* a time, with every outcome of the posts to the Notification Gateway
NextNotify ==
  \/ RequestSteps({"r1"}, {1}, FrameRequests, {"ok"}, BOOLEAN)
  \/ OrderSteps({"r1"}, {1}, {Order_Ada}, MaxOrders, {"no_key"})

SpecNotify == Init /\ [][NextNotify]_vars

(* ------------------------------------------------------------------ *)
(* The mark-mailed callback                                            *)
(* ------------------------------------------------------------------ *)

\* C1: a mark-mailed callback that found the Letter already shipped is a
\* no-op on both channels: when it ends, no Letter has changed (mailed_at is
\* not overwritten) and no notification edit has been pushed.
C1_AlreadyShippedIsNoOp ==
  [][\A ch \in Channels, response \in MarkMailedResponses, edit \in EditOutcomes :
        (/\ callbacks[ch].pc = "loaded"
         /\ callbacks[ch].loaded.status = SHIPPED
         /\ handle_mark_mailed_commit(ch, response, edit))
        => (letters' = letters /\ slack' = slack)]_vars

\* the Mail Gateway failures of mark_letter_mailed
MarkMailedFailures == MarkMailedResponses \ {"200"}

\* C2: for a Letter the callback found not shipped, the callback stores
\* status shipped and the utcnow() reading in mailed_at even when the Mail
\* Gateway's mark-mailed call fails (404, non-200, timeout, connection
\* error).
C2_GatewayFailureDoesNotBlock ==
  [][\A ch \in Channels, response \in MarkMailedFailures, edit \in EditOutcomes :
        (/\ callbacks[ch].pc = "loaded"
         /\ callbacks[ch].loaded.status # SHIPPED
         /\ handle_mark_mailed_commit(ch, response, edit))
        => (/\ letters'[callbacks[ch].row].status = SHIPPED
            /\ letters'[callbacks[ch].row].mailed_at = Some(clock'))]_vars

\* C3: shipped is terminal: a Letter whose committed status is shipped keeps
\* it in every step of every interleaving of poll runs and callbacks.
C3_ShippedIsTerminal ==
  [][\A i \in LetterIndex : letters[i].status = SHIPPED => letters'[i].status = SHIPPED]_vars

(* ------------------------------------------------------------------ *)
(* The poll run                                                        *)
(* ------------------------------------------------------------------ *)

ErrorAnswer == [raised |-> TRUE, status |-> <<>>]

\* the strings that, lowered, name a LetterStatus
Recognized(status) == Lower(status) \in {S_QUEUED, S_PROCESSING, S_SHIPPED, S_FAILED}

RecognizedStrings == {status \in StatusStrings : Recognized(status)}
UnknownStrings == StatusStrings \ RecognizedStrings

\* the status a recognized string names
Named(status) ==
  LET l == Lower(status) IN
  IF l = S_QUEUED THEN QUEUED ELSE IF l = S_PROCESSING THEN PROCESSING
  ELSE IF l = S_SHIPPED THEN SHIPPED ELSE FAILED

\* C4: in a poll run, a failing status call leaves every Letter as it was
\* and the run takes the next Letter; a call that succeeds with a status
\* different from the stored one stores that status; the run ends only
\* after it has visited every Letter of its batch.
C4_FailureSkipsOneLetter ==
  [][\A p \in PollRuns :
       /\ \A edit \in EditOutcomes :
            check_all_pending_letters_step(p, ErrorAnswer, edit)
            => (/\ letters' = letters
                /\ polls'[p].pc = "running"
                /\ polls'[p].idx = polls[p].idx + 1)
       /\ \A status \in RecognizedStrings, edit \in EditOutcomes :
            (/\ polls[p].pc = "running"
             /\ check_all_pending_letters_step(p, [raised |-> FALSE, status |-> status], edit)
             /\ Named(status) # letters[polls[p].batch[polls[p].idx]].status)
            => letters'[polls[p].batch[polls[p].idx]].status = Named(status)
       /\ check_all_pending_letters_return(p)
            => (/\ out'.nums[1] = Len(polls[p].batch)
                /\ polls[p].checked = Len(polls[p].batch))]_vars

\* C5: a status string that is not, case-insensitively, one of the four
\* (a missing status included) leaves every Letter unchanged and the run
\* takes the next Letter; every stored status is one of the four values.
C5_UnknownStatusIgnored ==
  /\ [](\A i \in LetterIndex : letters[i].status \in LetterStatus)
  /\ [][\A p \in PollRuns, status \in UnknownStrings, edit \in EditOutcomes :
          (/\ polls[p].pc = "running"
           /\ check_all_pending_letters_step(p, [raised |-> FALSE, status |-> status], edit))
          => (/\ letters' = letters
              /\ polls'[p].pc = "running"
              /\ polls'[p].idx = polls[p].idx + 1)]_vars

\* C5 happens: the run met an unknown status for a Letter that had already
\* left queued, and the Letter still has its status
C5_Witness ==
  /\ out.op = "poll"
  /\ out.tag = "unknown"
  /\ letters[out.row].status = PROCESSING

\* C6: failed is terminal: a Letter stored as failed is never changed by any
\* step, and no poll run loads it.
C6_FailedIsTerminal ==
  [][/\ \A i \in LetterIndex : letters[i].status = FAILED => letters'[i] = letters[i]
     /\ \A p \in PollRuns :
          check_all_pending_letters_start(p)
          => \A k \in DOMAIN polls'[p].batch : letters[polls'[p].batch[k]].status # FAILED]_vars

(* ------------------------------------------------------------------ *)
(* Creation and the ledger                                             *)
(* ------------------------------------------------------------------ *)

\* C7: a failing Mail Gateway create ends the request before any ledger
\* write: no Letter is stored, no Event changes, no notification of a
\* creation is posted and nothing of the request stays in flight; every
\* stored Letter carries an identifier the Mail Gateway returned.
C7_GatewayFailureAborts ==
  /\ [](\A i \in LetterIndex :
          /\ ~IsNone(letters[i].letter_id)
          /\ Val(letters[i].letter_id) \in 1..theseus)
  /\ [][\A r \in Requesters, e \in EventIds, req \in LetterRequests :
          create_letter_call(r, e, req, "error")
          => (/\ letters' = letters
              /\ events' = events
              /\ slack' = slack
              /\ requests'[r] = RequestIdle)]_vars

\* C7 happens: after one Letter was created, a request met a failing gateway
\* and answered 502; the ledger is as the first creation left it
C7_Witness ==
  /\ out = Report("create_letter", "r1", "502", 0, <<>>)
  /\ Len(letters) = 1
  /\ theseus = 1
  /\ events[letters[1].event_id].letter_count = 1
  /\ requests["r1"] = RequestIdle

\* the charges of the Letters and Orders stored for an Event
RECURSIVE LetterCharges(_, _)
LetterCharges(e, n) ==
  IF n = 0 THEN 0
  ELSE LetterCharges(e, n - 1)
         + (IF letters[n].event_id = e THEN letters[n].cost_cents ELSE 0)

LettersOf(e) == {i \in LetterIndex : letters[i].event_id = e}
OrdersOf(e) == {i \in OrderIndex : orders[i].event_id = e}

\* C8: no increment is lost: as long as no mark-paid has been committed for
\* an Event, its balance is the sum of the costs of its stored Letters plus
\* 100 cents for each of its stored Orders, and its letter_count is the
\* number of its stored Letters, whatever the interleaving of the requests.
C8_NoLostIncrement ==
  \A e \in EventIds :
    ~events[e].is_paid =>
      /\ events[e].balance_due_cents =
           LetterCharges(e, Len(letters)) + 100 * Cardinality(OrdersOf(e))
      /\ events[e].letter_count = Cardinality(LettersOf(e))

\* C8 happens: a letter request read the Event before a Letter and an Order
\* of other requests were committed and is still in flight; the balance
\* holds both charges
C8_Witness ==
  /\ requests["r2"].op = "letter"
  /\ requests["r2"].pc = "created"
  /\ requests["r2"].loaded.balance_due_cents = 0
  /\ Len(letters) = 1
  /\ Len(orders) = 1
  /\ ~events[1].is_paid
  /\ letters[1].cost_cents > 0
  /\ events[1].balance_due_cents = letters[1].cost_cents + 100
  /\ events[1].letter_count = 1

\* C9: the step that stores a Letter stores it queued, adds exactly its
\* stored cost to the balance of its Event and 1 to the Event's
\* letter_count, and changes no other Event; the cost of lettermail to
\* Canada is 175.
C9_CreationChargesItsCost ==
  [][Len(letters') = Len(letters) + 1 =>
       LET n == letters'[Len(letters')]
           e == n.event_id
       IN  /\ n.status = QUEUED
           /\ IsNone(n.mailed_at)
           /\ events'[e].balance_due_cents = events[e].balance_due_cents + n.cost_cents
           /\ events'[e].letter_count = events[e].letter_count + 1
           /\ events'[e].is_paid = events[e].is_paid
           /\ \A o \in EventIds \ {e} : events'[o] = events[o]
           /\ (n.mail_type = LETTERMAIL /\ country_lower(n.country) = CANADA)
                => n.cost_cents = 175]_vars

\* C9 happens: a lettermail Letter to Canada was created for an Event that
\* already had a balance
C9_Witness ==
  /\ out.op = "create_letter"
  /\ out.tag = "200"
  /\ out.row = 2
  /\ letters[2].mail_type = LETTERMAIL
  /\ letters[2].country = Str_Canada
  /\ letters[2].cost_cents = 175
  /\ letters[2].status = QUEUED
  /\ letters[1].event_id = letters[2].event_id
  /\ events[letters[2].event_id].balance_due_cents = letters[1].cost_cents + 175
  /\ letters[1].cost_cents > 0

\* C10: the commit of a mark-paid, on either channel, leaves the Event with
\* balance 0 and is_paid true, reports the balance the Event held just
\* before as the previous balance, and leaves letter_count, the other
\* Events, every Letter and every Order as they were.
C10_MarkPaidResets ==
  [][\A p \in PayChannels :
       mark_event_paid_commit(p) =>
         LET e == payers[p].event_id IN
         /\ events'[e].balance_due_cents = 0
         /\ events'[e].is_paid
         /\ out'.nums = <<events[e].balance_due_cents>>
         /\ events'[e].letter_count = events[e].letter_count
         /\ \A o \in EventIds \ {e} : events'[o] = events[o]
         /\ letters' = letters
         /\ orders' = orders]_vars

(* ------------------------------------------------------------------ *)
(* The ledger's frame                                                  *)
(* ------------------------------------------------------------------ *)

\* a step that ended a create_letter with HTTP 200 for Event e
LetterCommitted(e) ==
  /\ out'.op = "create_letter" /\ out'.tag = "200" /\ out'.nums[1] = e
  /\ Len(letters') = Len(letters) + 1
\* a step that ended a create_order with HTTP 200 for Event e
OrderCommitted(e) ==
  /\ out'.op = "create_order" /\ out'.tag = "200" /\ out'.nums[1] = e
  /\ Len(orders') = Len(orders) + 1
\* a step that ended a mark-paid operation on Event e
MarkedPaid(e) ==
  out'.op = "mark_paid" /\ out'.tag = "200" /\ out'.row = e

\* C11: every Event's balance_due is a non-negative integer in every state;
\* a step that changes an Event's balance_due or letter_count is a committed
\* letter creation (balance raised by the Letter's non-negative cost, count
\* by one), a committed order creation (balance raised by the fee, count
\* kept) or a mark-paid commit (balance reset to zero, count kept); no step
\* of a poll run, a mark-mailed callback, a fulfill or an update-tracking
\* submission changes either.
C11_BalanceChangesOnlyByChargeOrReset ==
  /\ [](\A e \in EventIds : events[e].balance_due_cents \in Nat)
  /\ [][\A e \in EventIds :
          (\/ events'[e].balance_due_cents # events[e].balance_due_cents
           \/ events'[e].letter_count # events[e].letter_count)
          => \/ /\ LetterCommitted(e)
                /\ out'.nums[2] >= 0
                /\ events'[e].balance_due_cents =
                     events[e].balance_due_cents + out'.nums[2]
                /\ events'[e].letter_count = events[e].letter_count + 1
             \/ /\ OrderCommitted(e)
                /\ events'[e].balance_due_cents > events[e].balance_due_cents
                /\ events'[e].letter_count = events[e].letter_count
             \/ /\ MarkedPaid(e)
                /\ events'[e].balance_due_cents = 0
                /\ events'[e].letter_count = events[e].letter_count]_vars

\* an Event charged for a Letter and an Order, then marked paid, then charged
\* again, while a Letter was shipped and the Order fulfilled
C11_Witness ==
  /\ events[1].is_paid
  /\ events[1].balance_due_cents > 0
  /\ events[1].letter_count = 2
  /\ \E i \in LetterIndex : letters[i].status = SHIPPED
  /\ \E i \in OrderIndex : orders[i].status = FULFILLED /\ ~IsNone(orders[i].tracking_code)

(* ------------------------------------------------------------------ *)
(* Orders                                                              *)
(* ------------------------------------------------------------------ *)

\* C12: no two stored Orders share an order_id, whatever the interleaving of
\* create_order requests; and the id a request leaves the generation loop
\* with is not the id of any Order stored at that moment (an id in use is
\* drawn again before the insert).
C12_OrderIdsUnique ==
  /\ [](\A i, j \in OrderIndex : i # j => orders[i].order_id # orders[j].order_id)
  /\ [][\A r \in Requesters :
          (requests[r].pc = "idle" /\ requests'[r].pc = "generated")
          => requests'[r].order_id \notin OrderIdsStored]_vars

\* two requests drew the same id at once: one Order is stored under it, the
\* other request met the unique index and got HTTP 500
C12_Witness ==
  /\ Len(orders) = 1
  /\ out.op = "create_order" /\ out.tag = "500"
  /\ \E r \in Requesters : requests[r].pc = "generated"
                           /\ requests[r].order_id # orders[1].order_id

\* the name, address, email and phone of a request
PersonalData(req) ==
  {req.first_name, req.last_name, req.address_line_1, req.city}
    \cup (IF IsNone(req.email) THEN {} ELSE {Val(req.email)})
    \cup (IF IsNone(req.phone_number) THEN {} ELSE {Val(req.phone_number)})
PersonalValues == UNION {PersonalData(req) : req \in OrderRequests}

\* the columns the claim allows an Order to have
OrderColumns ==
  {"order_id", "event_id", "order_text", "status", "tracking_code",
   "fulfillment_note", "fulfilled_at", "slack_message_ts", "slack_channel_id"}

\* the texts an Order row holds that creation wrote
StoredTexts(row) ==
  {row.order_id, row.order_text, row.status}
    \cup (IF IsNone(row.slack_message_ts) THEN {} ELSE {Val(row.slack_message_ts)})
    \cup (IF IsNone(row.slack_channel_id) THEN {} ELSE {Val(row.slack_channel_id)})

\* C13: in every state, every stored Order has exactly the columns order_id,
\* event id, order text, status, tracking code, fulfillment note, fulfilled
\* timestamp and notification handle, none of them holding the requester's
\* name, address, email or phone; the tracking code and the note are either
\* absent or a text the operator submitted in a modal.
C13_NoPersonalDataAtRest ==
  \A i \in OrderIndex :
    /\ DOMAIN orders[i] = OrderColumns
    /\ StoredTexts(orders[i]) \cap PersonalValues = {}
    /\ orders[i].tracking_code \in TrackingInputs
    /\ orders[i].fulfillment_note \in NoteInputs

\* an Order made from a request carrying a name, an address, an email and a
\* phone number, its notification posted, then fulfilled with a tracking code
\* and a note, then given another tracking code
C13_Witness ==
  /\ out.op = "update_tracking" /\ out.tag = "clear"
  /\ slack.orders # {}
  /\ \E i \in OrderIndex :
        /\ orders[i].status = FULFILLED
        /\ orders[i].fulfillment_note = Some(Text(500))
        /\ orders[i].tracking_code = Some(Text(64))
        /\ ~IsNone(slack.fulfilled[orders[i].order_id])
        /\ Val(slack.fulfilled[orders[i].order_id]).tracking_code # orders[i].tracking_code

\* the texts of a record posted to Airtable
RecordTexts(rec) ==
  {rec.first_name, rec.last_name, rec.email}
    \cup {rec.full_address[k] : k \in DOMAIN rec.full_address}

\* C14: the name, address, email and phone of an order request are in the
\* request in flight and in the Notification Gateway message only: no stored
\* Order holds any of them, and create_order hands none of them to any other
\* external system (no record posted to Airtable carries them).
C14_PersonalDataOnlyInNotification ==
  /\ \A i \in OrderIndex : StoredTexts(orders[i]) \cap PersonalValues = {}
  /\ \A rec \in airtable : RecordTexts(rec) \cap PersonalValues = {}

\* C15: an Order is stored as pending; a step that changes a stored Order's
\* status is the commit of a fulfill-modal submission for that Order and
\* takes it from pending to fulfilled; no step of a creation, a poll run, a
\* mark-mailed callback, an update-tracking submission or a mark-paid
\* operation changes any Order's status, no Order is removed, and a
\* fulfilled Order is never pending again.
C15_OrderStatusOnlyByFulfill ==
  [][/\ Len(orders') >= Len(orders)
     /\ \A i \in DOMAIN orders' \ OrderIndex : orders'[i].status = PENDING
     /\ \A i \in OrderIndex :
          orders'[i].status # orders[i].status
          => /\ orders[i].status = PENDING
             /\ orders'[i].status = FULFILLED
             /\ out'.op = "fulfill" /\ out'.tag = "clear" /\ out'.row = i]_vars

\* an Order fulfilled, then given another tracking code, its Event marked
\* paid, and a poll run completed after all that
C15_Witness ==
  /\ out.op = "poll" /\ out.tag = "complete" /\ out.nums[1] > 0
  /\ events[1].is_paid
  /\ \E i \in OrderIndex :
        /\ orders[i].status = FULFILLED
        /\ orders[i].tracking_code = Some(Text(64))
        /\ Val(slack.fulfilled[orders[i].order_id]).tracking_code = Some(Text(64))
        /\ orders[i].fulfilled_at = Some(1)

\* C16: when an update-tracking submission with a tracking code of 1 to 64
\* characters, made on an Order that was already fulfilled, ends, every
\* column of that Order other than tracking_code (status, fulfilled_at,
\* fulfillment_note, order text, the notification handle, ids) has the value
\* it had, no other Order has changed, and if the submission was cleared
\* the tracking code stored is the one submitted.
C16_UpdateTrackingWritesTrackingOnly ==
  [][\A ch \in Channels, edit \in EditOutcomes :
        (/\ modals[ch].pc = "loaded"
         /\ modals[ch].op = "update_tracking"
         /\ modals[ch].loaded.status = FULFILLED
         /\ Len(Val(modals[ch].tracking_code)) \in 1..64
         /\ handle_update_tracking_modal_commit(ch, edit))
        => /\ \A i \in OrderIndex, f \in OrderColumns \ {"tracking_code"} :
                orders'[i][f] = orders[i][f]
           /\ \A i \in OrderIndex \ {modals[ch].row} : orders'[i] = orders[i]
           /\ Len(orders') = Len(orders)
           /\ out'.tag = "clear"
                => orders'[modals[ch].row].tracking_code = modals[ch].tracking_code]_vars

\* an Order fulfilled once, without a tracking code and with a note, as its
\* message shows; an update-tracking submission then gave it a code of one
\* character
C16_Witness ==
  /\ out.op = "update_tracking" /\ out.tag = "clear"
  /\ clock = 1
  /\ \E i \in OrderIndex :
        /\ orders[i].status = FULFILLED
        /\ orders[i].fulfilled_at = Some(1)
        /\ orders[i].fulfillment_note = Some(Text(500))
        /\ orders[i].tracking_code = Some(Text(1))
        /\ ~IsNone(slack.fulfilled[orders[i].order_id])
        /\ IsNone(Val(slack.fulfilled[orders[i].order_id]).tracking_code)

\* an input left empty, or holding the empty text
Empty(text) == IsNone(text) \/ Len(Val(text)) = 0
\* an input of more than n characters
Longer(text, n) == ~IsNone(text) /\ Len(Val(text)) > n
\* the blocks a fulfill submission must be told about
BlocksAtFault(tracking_code, fulfillment_note) ==
  (IF Longer(tracking_code, 64) THEN {"tracking_code_block"} ELSE {})
  \cup (IF Longer(fulfillment_note, 500) THEN {"fulfillment_note_block"} ELSE {})

\* C17: a fulfill submission whose tracking code has more than 64
\* characters or whose note has more than 500 ends with the errors response
\* naming exactly the blocks at fault, and an update-tracking submission
\* whose tracking code is empty or has more than 64 characters ends with the
\* errors response naming the tracking code block; in both cases no Order,
\* no notification message and no clock reading has changed and nothing is
\* left in flight.
C17_InvalidModalInputRejected ==
  [][/\ \A ch \in Channels, o \in OrderIdSpace, t \in TrackingInputs, n \in NoteInputs :
          (/\ BlocksAtFault(t, n) # {}
           /\ handle_fulfill_order_modal_select(ch, o, t, n))
          => /\ out'.op = "fulfill" /\ out'.who = ch
             /\ out'.tag = ErrorsTag(BlocksAtFault(t, n))
             /\ UNCHANGED <<orders, slack, clock, modals, events>>
     /\ \A ch \in Channels, o \in OrderIdSpace, t \in TrackingInputs :
          (/\ Empty(t) \/ Longer(t, 64)
           /\ handle_update_tracking_modal_select(ch, o, t))
          => /\ out'.op = "update_tracking" /\ out'.who = ch
             /\ out'.tag = "errors: tracking_code_block"
             /\ UNCHANGED <<orders, slack, clock, modals, events>>]_vars

\* a fulfilled Order holding a tracking code of 64 characters, for which a
\* further fulfill submission with a code and a note both too long has just
\* been answered with both errors
C17_Witness ==
  /\ out.op = "fulfill"
  /\ out.tag = "errors: tracking_code_block, fulfillment_note_block"
  /\ out.row \in OrderIndex
  /\ orders[out.row].status = FULFILLED
  /\ orders[out.row].tracking_code = Some(Text(64))
  /\ orders[out.row].fulfilled_at = Some(1)
  /\ clock = 1

(* ------------------------------------------------------------------ *)
(* Errors of creation                                                  *)
(* ------------------------------------------------------------------ *)

\* a request that fails cost validation: a bubble packet of more than 500 g,
\* or a bubble packet or parcel with no weight
FailsCostValidation(req) ==
  \/ /\ req.mail_type = BUBBLE_PACKET
     /\ ~IsNone(req.weight_grams)
     /\ Val(req.weight_grams) > 500
  \/ /\ req.mail_type \in {BUBBLE_PACKET, PARCEL}
     /\ IsNone(req.weight_grams)

\* C18: a create_letter request that fails cost validation ends with HTTP
\* 400 in the step that receives it, whatever the Mail Gateway would have
\* answered: the Mail Gateway has created nothing, no Letter is stored, no
\* Event has changed, nothing was posted to the Notification Gateway and
\* nothing is left in flight.
C18_InvalidRequestHasNoEffect ==
  [][\A r \in Requesters, e \in EventIds, req \in LetterRequests, gw \in CreateAnswers :
        (FailsCostValidation(req) /\ create_letter_call(r, e, req, gw))
        => /\ out' = Report("create_letter", r, "400", 0, <<>>)
           /\ UNCHANGED <<theseus, letters, events, slack, requests, airtable>>]_vars

\* a request rejected with HTTP 400 after one Letter had been created: the
\* Mail Gateway, the table, the Event and the notifications still show that
\* one Letter only
C18_Witness ==
  /\ out = Report("create_letter", "r1", "400", 0, <<>>)
  /\ theseus = 1
  /\ Len(letters) = 1
  /\ slack.created = {1}
  /\ events[letters[1].event_id].letter_count = 1
  /\ requests["r1"].pc = "idle"

\* C19: when the post of the creation notification fails, create_letter
\* (for a request the Mail Gateway accepted with an id) and create_order
\* still end with HTTP 200, the Letter or Order is stored with both
\* slack_message_ts and slack_channel_id null, and the Event's balance is
\* raised by the cost (and its letter count by one for a Letter).
C19_CreationSurvivesFailedNotification ==
  [][\A r \in Requesters :
        /\ \A quote \in QuoteOutcomes :
              (/\ requests[r].pc = "created"
               /\ ~IsNone(requests[r].letter_id)
               /\ create_letter_commit(r, FALSE, quote))
              => /\ out'.op = "create_letter" /\ out'.tag = "200"
                 /\ Len(letters') = Len(letters) + 1
                 /\ IsNone(letters'[Len(letters')].slack_message_ts)
                 /\ IsNone(letters'[Len(letters')].slack_channel_id)
                 /\ events'[requests[r].event_id] =
                      [events[requests[r].event_id] EXCEPT
                         !.balance_due_cents = @ + requests[r].cost_cents,
                         !.letter_count = @ + 1]
        /\ \A record \in AirtableOutcomes :
              (/\ requests[r].pc = "flushed"
               /\ create_order_commit(r, FALSE, record))
              => /\ out'.op = "create_order" /\ out'.tag = "200"
                 /\ Len(orders') = Len(orders) + 1
                 /\ IsNone(orders'[Len(orders')].slack_message_ts)
                 /\ IsNone(orders'[Len(orders')].slack_channel_id)
                 /\ events'[requests[r].event_id] =
                      [events[requests[r].event_id] EXCEPT
                         !.balance_due_cents = @ + 100]]_vars

(* ------------------------------------------------------------------ *)
(* Failed notification edits                                           *)
(* ------------------------------------------------------------------ *)

\* the edit of the message did not go through: SlackApiError, logged inside
\* update_letter_shipped, or any other error, raised out of it
FailedEdits == EditOutcomes \ {"ok"}
ShippedAnswer == [raised |-> FALSE, status |-> S_SHIPPED]

\* C20: when a mark-mailed callback or a poll run takes a Letter that has a
\* notification message to shipped and the edit of that message fails, the
\* step ends with the Letter stored as shipped with mailed_at set; in a poll
\* run the run then goes on to the next Letter of its batch.
C20_FailedEditKeepsTransition ==
  [][/\ \A ch \in Channels, response \in MarkMailedResponses, edit \in FailedEdits :
          (/\ callbacks[ch].pc = "loaded"
           /\ callbacks[ch].loaded.status # SHIPPED
           /\ ~IsNone(letters[callbacks[ch].row].slack_message_ts)
           /\ handle_mark_mailed_commit(ch, response, edit))
          => /\ letters'[callbacks[ch].row].status = SHIPPED
             /\ ~IsNone(letters'[callbacks[ch].row].mailed_at)
     /\ \A p \in PollRuns, edit \in FailedEdits :
          (/\ polls[p].pc = "running"
           /\ polls[p].idx <= Len(polls[p].batch)
           /\ ~IsNone(letters[polls[p].batch[polls[p].idx]].slack_message_ts)
           /\ check_all_pending_letters_step(p, ShippedAnswer, edit))
          => /\ letters'[polls[p].batch[polls[p].idx]].status = SHIPPED
             /\ ~IsNone(letters'[polls[p].batch[polls[p].idx]].mailed_at)
             /\ polls'[p].pc = "running"
             /\ polls'[p].idx = polls[p].idx + 1]_vars

\* C21: the counts a poll run returns are: checked, the number of Letters
\* that were non-terminal when the run started; updated, the number of those
\* whose stored status the run changed; mailed, the number of those the run
\* moved to shipped; and mailed <= updated <= checked. Taken where the run is
\* the only writer of the Letters it loaded.
StoredChanged(q) ==
  {k \in DOMAIN q.batch : letters[q.batch[k]].status # q.start[k].status}

StoredShipped(q) ==
  {k \in DOMAIN q.batch : letters[q.batch[k]].status = SHIPPED}

CountsAreExact(q) ==
  /\ q.checked = Len(q.start)
  /\ q.updated = Cardinality(StoredChanged(q))
  /\ q.mailed = Cardinality(StoredShipped(q))
  /\ q.mailed <= q.updated
  /\ q.updated <= q.checked

C21_PollCountsAreExact ==
  [][\A p \in PollRuns :
       check_all_pending_letters_return(p) => CountsAreExact(polls[p])]_vars
\* C22: once a Letter is stored, no operation (poll run, mark-mailed
\* callback, mark-paid, Order creation, fulfil, update tracking) changes its
\* cost, recipient, mail type, weight, owning Event id or external
\* identifier, and no Letter is deleted; only status and mailed_at are
\* written after creation.
Immutable(row) ==
  [cost_cents |-> row.cost_cents, country |-> row.country,
   mail_type |-> row.mail_type, weight_grams |-> row.weight_grams,
   event_id |-> row.event_id, letter_id |-> row.letter_id,
   slack_message_ts |-> row.slack_message_ts,
   slack_channel_id |-> row.slack_channel_id]

C22_LetterFixedAfterCreation ==
  [][\A i \in DOMAIN letters :
       /\ i \in DOMAIN letters'
       /\ Immutable(letters'[i]) = Immutable(letters[i])]_vars

\* a Letter priced 175 was moved to shipped and its Event was marked paid
C22_Witness ==
  \E i \in DOMAIN letters :
     /\ letters[i].status = SHIPPED
     /\ ~IsNone(letters[i].mailed_at)
     /\ letters[i].cost_cents = 175
     /\ events[letters[i].event_id].is_paid
(* ------------------------------------------------------------------ *)
(* The cost engine called directly (cost_calculator.py; POST           *)
(* /api/v1/calculate-cost passes body.mail_type, body.country and       *)
(* body.weight_grams to calculate_cost, main.py 496-515)               *)
(* ------------------------------------------------------------------ *)

\* the heaviest packet tried; the bubble-packet limit is 500 g
MaxWeight == 503

\* country strings: spellings of the three regions in either case, with
\* whitespace around and inside, near misses, the empty string
Countries ==
  { <<"C","a","n","a","d","a">>,
    <<"C","A","N","A","D","A">>,
    <<" ","c","a","n","a","d","a","\n">>,
    <<"C","a","n"," ","a","d","a">>,
    <<"c","a","n","a","d","a","s">>,
    <<"U","S","A">>,
    <<"u","s">>,
    <<"\t","U","s"," ">>,
    <<"u","s","a",".">>,
    <<"U","n","i","t","e","d"," ","S","t","a","t","e","s">>,
    <<"U","N","I","T","E","D"," ","S","T","A","T","E","S"," ","O","F"," ","A","M","E","R","I","C","A">>,
    <<"u","n","i","t","e","d"," "," ","s","t","a","t","e","s">>,
    <<"F","r","a","n","c","e">>,
    <<>>,
    <<" ">> }

\* CostCalculatorRequest (schemas.py 86-89): weight_grams is int | None
Weights == {None} \cup {Some(w) : w \in 0..MaxWeight}

CostArgs ==
  [mail_type : MailType, country : Countries, weight_grams : Weights]

\* nothing stored and nothing in flight, as after start-up
AtRest ==
  /\ events = [e \in EventIds |-> NoEvent]
  /\ letters = <<>>
  /\ orders = <<>>
  /\ clock = 0
  /\ theseus = 0
  /\ slack = [created |-> {}, quotes |-> {}, orders |-> {},
              edits |-> [i \in TheseusIds |-> 0],
              fulfilled |-> [o \in OrderIdSpace |-> None]]
  /\ requests = [r \in Requesters |-> RequestIdle]
  /\ payers = [p \in PayChannels |-> PayerIdle]
  /\ polls = [p \in PollRuns |-> PollIdle]
  /\ callbacks = [c \in Channels |-> CallbackIdle]
  /\ modals = [c \in Channels |-> ModalIdle]
  /\ airtable = {}
  /\ summary = SummaryIdle
  /\ out = NoReport

InitCost ==
  /\ args \in CostArgs
  /\ AtRest

\* what a call leaves: the value returned or the exception raised
Returned(fn, result) == Report(fn, "call", result.kind, 0, <<result.cents>>)

NothingStored ==
  UNCHANGED <<args, summary, events, letters, orders, clock, theseus, slack, requests,
              payers, polls, callbacks, modals, airtable>>

\* calculate_cost(mail_type, country, weight_grams)
calculate_cost_call ==
  /\ out' = Returned("calculate_cost",
                     calculate_cost(args.mail_type, args.country, args.weight_grams))
  /\ NothingStored

\* calculate_lettermail_cost(country)
calculate_lettermail_cost_call ==
  /\ out' = Returned("calculate_lettermail_cost",
                     Ok(calculate_lettermail_cost(args.country)))
  /\ NothingStored

\* calculate_bubble_packet_cost(country, weight_grams): weight_grams is an int
calculate_bubble_packet_cost_call ==
  /\ ~IsNone(args.weight_grams)
  /\ out' = Returned("calculate_bubble_packet_cost",
                     calculate_bubble_packet_cost(args.country, Val(args.weight_grams)))
  /\ NothingStored

\* get_stamp_region(country)
get_stamp_region_call ==
  /\ out' = Report("get_stamp_region", "call", get_stamp_region(args.country), 0, <<>>)
  /\ NothingStored

NextCost ==
  \/ calculate_cost_call
  \/ calculate_lettermail_cost_call
  \/ calculate_bubble_packet_cost_call
  \/ get_stamp_region_call

SpecCost == InitCost /\ [][NextCost]_vars
\* the region a country string stands for after lower() and strip()
Region(country) ==
  IF country_lower(country) = CANADA THEN "CA"
  ELSE IF country_lower(country) \in US_NAMES THEN "US"
  ELSE "INT"

\* the documented bubble-packet prices, per started 100 g
Tiers ==
  [CA  |-> <<311, 451, 591, 662, 705>>,
   US  |-> <<451, 716, 1338, 1338, 1338>>,
   INT |-> <<808, 1338, 2580, 2580, 2580>>]

Tier(region, w) == Tiers[region][(w + 99) \div 100]

\* C23: for every region and every weight from 1 to 500 g the bubble-packet
\* cost is the documented tier price (100 g is tier 1, 101 g tier 2, ...) and
\* no lighter packet to the same country costs more.
C23_BubblePacketTiers ==
  (out.op = "calculate_bubble_packet_cost" /\ Val(args.weight_grams) \in 1..500) =>
     /\ out.tag = "ok"
     /\ out.nums = <<Tier(Region(args.country), Val(args.weight_grams))>>
     /\ \A v \in 1..Val(args.weight_grams) :
           calculate_bubble_packet_cost(args.country, v).cents <= out.nums[1]

C23_Witness ==
  /\ out.op = "calculate_bubble_packet_cost"
  /\ args.weight_grams = Some(101)
  /\ Region(args.country) = "CA"
  /\ out.nums = <<451>>

\* C24: for every country and every weight above 500 g the bubble-packet
\* cost computation raises CostCalculationError: never the quote signal,
\* never a price; directly and through calculate_cost.
C24_OverweightPacketIsAnError ==
  (/\ \/ out.op = "calculate_bubble_packet_cost"
      \/ out.op = "calculate_cost" /\ args.mail_type = BUBBLE_PACKET
   /\ ~IsNone(args.weight_grams)
   /\ Val(args.weight_grams) > 500)
    => out.tag = "CostCalculationError"

C24_Witness ==
  /\ out.op = "calculate_bubble_packet_cost"
  /\ args.weight_grams = Some(501)
  /\ out.tag = "CostCalculationError"

\* C25: calculate_cost for a parcel, whatever the country and the weight
\* given, raises ParcelQuoteRequired, which is not the validation error, and
\* returns no price.
C25_ParcelAlwaysNeedsQuote ==
  (out.op = "calculate_cost" /\ args.mail_type = PARCEL /\ ~IsNone(args.weight_grams))
    => /\ out.tag = "ParcelQuoteRequired"
       /\ out.tag # CostCalculationError.kind
       /\ out.tag # "ok"

C25_Witness ==
  /\ out.op = "calculate_cost"
  /\ args.mail_type = PARCEL
  /\ args.weight_grams = Some(MaxWeight)
  /\ Region(args.country) = "INT"
  /\ out.tag = "ParcelQuoteRequired"

\* C26: the lettermail cost is 175 for Canada, 200 for the United States and
\* 350 for any other country, whatever the weight given, present or absent.
LettermailPrice == [CA |-> 175, US |-> 200, INT |-> 350]

C26_LettermailIgnoresWeight ==
  (out.op = "calculate_cost" /\ args.mail_type = LETTERMAIL) =>
     /\ out.tag = "ok"
     /\ out.nums = <<LettermailPrice[Region(args.country)]>>
     /\ \A w \in Weights :
           calculate_cost(LETTERMAIL, args.country, w) = Ok(out.nums[1])
     /\ LettermailPrice.CA < LettermailPrice.US
     /\ LettermailPrice.US < LettermailPrice.INT

C26_Witness ==
  /\ out.op = "calculate_cost"
  /\ args.mail_type = LETTERMAIL
  /\ args.weight_grams = Some(MaxWeight)
  /\ Region(args.country) = "US"
  /\ out.nums = <<200>>

\* C27: every country string is classified, without error: as Canada exactly
\* when lower() and strip() give canada, as US exactly when they give united
\* states, usa, us or united states of america, as International otherwise;
\* case and whitespace around the name make no difference; the lettermail
\* cost, the bubble-packet cost and get_stamp_region agree on the region.
Upper(s) ==
  [i \in DOMAIN s |->
     IF \E k \in DOMAIN Lowers : Lowers[k] = s[i]
     THEN Uppers[CHOOSE k \in DOMAIN Lowers : Lowers[k] = s[i]]
     ELSE s[i]]

Respellings(country) ==
  { Lower(country), Upper(country),
    <<" ">> \o country, country \o <<"\n">>, <<"\t">> \o Upper(country) \o <<" ", " ">> }

C27_RegionClassification ==
  LET c == args.country
      n == Strip(Lower(c))
  IN
  /\ out.op = "get_stamp_region" =>
        /\ out.tag \in {"CA", "US", "INT"}
        /\ out.tag = "CA" <=> n = <<"c","a","n","a","d","a">>
        /\ out.tag = "US" <=> n \in US_NAMES
        /\ \A r \in Respellings(c) : get_stamp_region(r) = out.tag
        /\ calculate_lettermail_cost(c) = LettermailPrice[out.tag]
        /\ calculate_bubble_packet_cost(c, 1) = Ok(Tier(out.tag, 1))
  /\ out.op = "calculate_lettermail_cost" =>
        out.nums = <<LettermailPrice[get_stamp_region(c)]>>
  /\ (out.op = "calculate_bubble_packet_cost" /\ Val(args.weight_grams) \in 1..500) =>
        out.nums = <<Tier(get_stamp_region(c), Val(args.weight_grams))>>

C27_Witness ==
  /\ out.op = "get_stamp_region"
  /\ args.country = <<" ","c","a","n","a","d","a","\n">>
  /\ out.tag = "CA"

\* C28: calculate_cost without a weight raises CostCalculationError for a
\* bubble packet and for a parcel, for every country; for lettermail the
\* absent weight is accepted and the price returned.
C28_WeightIsMandatory ==
  (out.op = "calculate_cost" /\ IsNone(args.weight_grams)) =>
     IF args.mail_type = LETTERMAIL
     THEN out.tag = "ok" /\ out.nums = <<calculate_lettermail_cost(args.country)>>
     ELSE out.tag = "CostCalculationError"

C28_Witness ==
  /\ out.op = "calculate_cost"
  /\ IsNone(args.weight_grams)
  /\ args.mail_type = PARCEL
  /\ out.tag = "CostCalculationError"
(* ------------------------------------------------------------------ *)
(* The financial summary                                               *)
(* ------------------------------------------------------------------ *)

\* Letters to the three regions and a parcel, which is charged nothing
SummaryRequests ==
  { [mail_type |-> LETTERMAIL, country |-> Str_Canada, weight_grams |-> None],
    [mail_type |-> LETTERMAIL, country |-> Str_usa, weight_grams |-> None],
    [mail_type |-> BUBBLE_PACKET, country |-> Str_France, weight_grams |-> Some(150)],
    [mail_type |-> PARCEL, country |-> Str_France, weight_grams |-> Some(1000)] }

SummarySteps ==
  \/ get_financial_summary_select
  \/ get_financial_summary_event
  \/ get_financial_summary_return

\* the summary is read while Letters are created and Events are marked paid
NextSummary ==
  \/ RequestSteps({"r1"}, EventIds, SummaryRequests, {"ok"}, {TRUE})
  \/ PaySteps({"admin"}, EventIds)
  \/ SummarySteps

SpecSummary == Init /\ [][NextSummary]_vars

RECURSIVE Sum(_)
Sum(numbers) ==
  IF numbers = <<>> THEN 0 ELSE Head(numbers) + Sum(Tail(numbers))

UsdToCents(usd) == usd[1] * 100 + usd[2]

\* C29: the financial summary lists exactly the Events whose balance due is
\* above zero when it reads them; for each listed Event the Canada, US and
\* International counts add up to the number of Letters the Event owns when
\* they are counted; the total due is the sum of the listed balances and each
\* global stamp count is the sum of the per-Event counts.
ListsUnpaidEvents(q) ==
  /\ {q.events[k].id : k \in DOMAIN q.events}
        = {e \in EventIds : events[e].balance_due_cents > 0}
  /\ Len(q.events) = Cardinality({e \in EventIds : events[e].balance_due_cents > 0})
  /\ \A k \in DOMAIN q.events :
        q.events[k].balance_due_cents = events[q.events[k].id].balance_due_cents

CountsEveryLetter(row) ==
  row.stamps.canada + row.stamps.us + row.stamps.international
    = Cardinality({i \in DOMAIN letters : letters[i].event_id = row.event_id})

TotalsAddUp(q, response) ==
  LET rows == response.unpaid_events IN
  /\ [k \in DOMAIN rows |-> rows[k].event_id] = [k \in DOMAIN q.events |-> q.events[k].id]
  /\ \A k \in DOMAIN rows :
        rows[k].balance_due_usd = cents_to_usd(q.events[k].balance_due_cents)
  /\ UsdToCents(response.total_due_usd)
        = Sum([k \in DOMAIN rows |-> UsdToCents(rows[k].balance_due_usd)])
  /\ response.total_stamps.canada = Sum([k \in DOMAIN rows |-> rows[k].stamps.canada])
  /\ response.total_stamps.us = Sum([k \in DOMAIN rows |-> rows[k].stamps.us])
  /\ response.total_stamps.international
        = Sum([k \in DOMAIN rows |-> rows[k].stamps.international])

C29_FinancialSummaryAddsUp ==
  [][/\ get_financial_summary_select => ListsUnpaidEvents(summary')
     /\ get_financial_summary_event =>
           CountsEveryLetter(summary'.unpaid_events[Len(summary'.unpaid_events)])
     /\ get_financial_summary_return =>
           TotalsAddUp(summary, FinancialSummaryResponse(summary))]_vars

\* a summary of one Event was returned while another Event that owns a
\* Letter has nothing due
C29_Witness ==
  /\ out.op = "get_financial_summary"
  /\ out.row = 1
  /\ \E i \in DOMAIN letters : events[letters[i].event_id].balance_due_cents = 0
  /\ \E i \in DOMAIN letters : events[letters[i].event_id].balance_due_cents > 0
(* ------------------------------------------------------------------ *)
(* format_rubber_stamps (rubber_stamp_formatter.py 1-65)               *)
(* ------------------------------------------------------------------ *)

\* the longest text tried and the largest max_line_length
MaxTextLength == 6
MaxLineLength == 3

\* two letters, the blank and the line break
Chars == {"a", "b", " ", "\n"}

RECURSIVE Texts(_)
Texts(n) ==
  IF n = 0 THEN {<<>>}
  ELSE Texts(n - 1) \cup {Append(t, c) : t \in {u \in Texts(n - 1) : Len(u) = n - 1}, c \in Chars}

FormatArgs == [text : Texts(MaxTextLength), max_line_length : 1..MaxLineLength]

\* text.split('\n')
RECURSIVE split_newline(_)
split_newline(text) ==
  IF \E i \in DOMAIN text : text[i] = "\n"
  THEN LET i == CHOOSE i \in DOMAIN text :
                  text[i] = "\n" /\ \A j \in 1..(i - 1) : text[j] # "\n"
       IN  <<SubSeq(text, 1, i - 1)>> \o split_newline(SubSeq(text, i + 1, Len(text)))
  ELSE <<text>>

\* line.split(): the runs of characters between whitespace
RECURSIVE split(_)
split(line) ==
  LET t == LStrip(line) IN
  IF t = <<>> THEN <<>>
  ELSE LET stops == {i \in DOMAIN t : t[i] \in Whitespace}
           i == IF stops = {} THEN Len(t) + 1
                ELSE CHOOSE i \in stops : \A j \in stops : i <= j
       IN  <<SubSeq(t, 1, i - 1)>> \o split(SubSeq(t, i, Len(t)))

\* lines 50-51: word[i:i + max_line_length] for i in range(0, len(word), max_line_length)
RECURSIVE chunks(_, _)
chunks(word, max_line_length) ==
  IF word = <<>> THEN <<>>
  ELSE IF Len(word) <= max_line_length THEN <<word>>
  ELSE <<SubSeq(word, 1, max_line_length)>>
       \o chunks(SubSeq(word, max_line_length + 1, Len(word)), max_line_length)

\* a faulty variant, for comparison: a word longer than the limit is put on
\* a line of its own, whole
RECURSIVE wrap_whole_words(_, _, _)
wrap_whole_words(words, current_line, max_line_length) ==
  IF words = <<>> THEN (IF current_line # <<>> THEN <<current_line>> ELSE <<>>)
  ELSE LET word == Head(words)
           test_line == IF current_line = <<>> THEN word
                        ELSE current_line \o <<" ">> \o word
       IN  IF Len(word) > max_line_length
           THEN (IF current_line # <<>> THEN <<current_line>> ELSE <<>>)
                \o <<word>>
                \o wrap_whole_words(Tail(words), <<>>, max_line_length)
           ELSE IF Len(test_line) <= max_line_length
           THEN wrap_whole_words(Tail(words), test_line, max_line_length)
           ELSE <<current_line>> \o wrap_whole_words(Tail(words), word, max_line_length)

\* lines 44-63: the loop over the words of a long line; the result is what
\* it appends to formatted_lines
RECURSIVE wrap(_, _, _)
wrap(words, current_line, max_line_length) ==
  IF words = <<>> THEN (IF current_line # <<>> THEN <<current_line>> ELSE <<>>)
  ELSE LET word == Head(words)
           test_line == IF current_line = <<>> THEN word
                        ELSE current_line \o <<" ">> \o word
       IN  IF Len(word) > max_line_length
           THEN (IF current_line # <<>> THEN <<current_line>> ELSE <<>>)
                \o chunks(word, max_line_length)
                \o wrap(Tail(words), <<>>, max_line_length)
           ELSE IF Len(test_line) <= max_line_length
           THEN wrap(Tail(words), test_line, max_line_length)
           ELSE <<current_line>> \o wrap(Tail(words), word, max_line_length)

\* lines 33-63: what one line of the input adds to formatted_lines
format_line(line, max_line_length) ==
  LET stripped == Strip(line) IN
  IF stripped = <<>> THEN <<>>
  ELSE IF Len(stripped) <= max_line_length THEN <<stripped>>
  ELSE wrap(split(stripped), <<>>, max_line_length)

\* line 32: for line in lines
RECURSIVE formatted_lines(_, _)
formatted_lines(lines, max_line_length) ==
  IF lines = <<>> THEN <<>>
  ELSE format_line(Head(lines), max_line_length)
       \o formatted_lines(Tail(lines), max_line_length)

\* '\n'.join(lines)
RECURSIVE join(_)
join(lines) ==
  IF lines = <<>> THEN <<>>
  ELSE IF Len(lines) = 1 THEN Head(lines)
  ELSE Head(lines) \o <<"\n">> \o join(Tail(lines))

format_rubber_stamps(text, max_line_length) ==
  IF text = <<>> THEN <<>>
  ELSE join(formatted_lines(split_newline(text), max_line_length))

InitFormat ==
  /\ args \in FormatArgs
  /\ AtRest

\* format_rubber_stamps(text, max_line_length); the report carries how many
\* times the text went through the function and the text returned
format_rubber_stamps_call ==
  /\ out.op = "none"
  /\ out' = Report("format_rubber_stamps", "call", "returned", 1,
                   format_rubber_stamps(args.text, args.max_line_length))
  /\ NothingStored

\* the text returned is formatted once more
format_rubber_stamps_again ==
  /\ out.op = "format_rubber_stamps"
  /\ out.row = 1
  /\ out' = Report("format_rubber_stamps", "call", "returned", 2,
                   format_rubber_stamps(out.nums, args.max_line_length))
  /\ NothingStored

NextFormat ==
  \/ format_rubber_stamps_call
  \/ format_rubber_stamps_again

SpecFormat == InitFormat /\ [][NextFormat]_vars

\* C30: for every text and every max_line_length >= 1, every line of the
\* text format_rubber_stamps returns is non-empty and at most max_line_length
\* long; a word longer than the limit comes out as consecutive lines holding
\* its characters in pieces of exactly the limit, the last piece being what
\* is left; formatting the returned text again returns it unchanged.
OutputLines(text) == IF text = <<>> THEN <<>> ELSE split_newline(text)

Piece(word, k, n) ==
  SubSeq(word, (k - 1) * n + 1, IF k * n < Len(word) THEN k * n ELSE Len(word))

ForceSplit(word, lines, n) ==
  LET pieces == (Len(word) + n - 1) \div n IN
  \E j \in 0..(Len(lines) - pieces) :
     \A k \in 1..pieces : lines[j + k] = Piece(word, k, n)

InputWords(text) ==
  LET lines == split_newline(text) IN
  UNION { {split(lines[i])[k] : k \in DOMAIN split(lines[i])} : i \in DOMAIN lines }

Forward(old, new) ==
  \/ new = old
  \/ old = QUEUED /\ new \in {PROCESSING, SHIPPED, FAILED}
  \/ old = PROCESSING /\ new \in {SHIPPED, FAILED}

C31_StatusOnlyMovesForward ==
  [][\A i \in DOMAIN letters :
       Forward(letters[i].status, letters'[i].status)]_vars
\* C32: in a poll run each commit persists only the Letter being processed:
\* a step of the run leaves the stored row of every other Letter as it was,
\* so a change left in memory by a Letter whose step failed before its commit
\* is not written by the commit of a later Letter, and what was committed
\* earlier is not undone.
C32_CommitPersistsOneLetter ==
  [][\A p \in PollRuns :
       (polls[p].pc = "running" /\ polls'[p].pc = "running"
          /\ polls'[p].idx = polls[p].idx + 1)
       => \A i \in DOMAIN letters :
             i # polls[p].batch[polls[p].idx] => letters'[i] = letters[i]]_vars
(* ------------------------------------------------------------------ *)
(* Parcels                                                             *)
(* ------------------------------------------------------------------ *)

\* C33: create_letter for a parcel with a weight, once the Mail Gateway has
\* created the letter, ends with HTTP 200: the Letter is stored as queued
\* with cost 0, the balance of its Event is unchanged and its letter count
\* one higher, and the quote request went to the Notification Gateway.
ParcelStored(r, quote) ==
  LET e == requests[r].event_id IN
  /\ out'.op = "create_letter" /\ out'.tag = "200"
  /\ Len(letters') = Len(letters) + 1
  /\ letters'[Len(letters')].status = QUEUED
  /\ letters'[Len(letters')].cost_cents = 0
  /\ letters'[Len(letters')].letter_id = requests[r].letter_id
  /\ events'[e].balance_due_cents = events[e].balance_due_cents
  /\ events'[e].letter_count = events[e].letter_count + 1
  /\ quote = "sent" => Val(requests[r].letter_id) \in slack'.quotes

C33_ParcelIsCreatedAtNoCharge ==
  [][\A r \in Requesters, posted \in BOOLEAN, quote \in QuoteOutcomes :
        (/\ requests[r].pc = "created"
         /\ requests[r].req.mail_type = PARCEL
         /\ ~IsNone(requests[r].req.weight_grams)
         /\ ~IsNone(requests[r].letter_id)
         /\ create_letter_commit(r, posted, quote))
        => ParcelStored(r, quote)]_vars
(* ------------------------------------------------------------------ *)
(* The Letter count of an Event                                        *)
(* ------------------------------------------------------------------ *)

\* creations of Letters that may fail after the ledger write (no id from the
\* Mail Gateway, a quote request that raises), Orders and mark-paid on one
\* Event
CountRequests ==
  { [mail_type |-> LETTERMAIL, country |-> Str_Canada, weight_grams |-> None],
    [mail_type |-> PARCEL, country |-> Str_France, weight_grams |-> Some(1000)] }

NextCounts ==
  \/ RequestSteps(Requesters, {1}, CountRequests, {"ok", "no_id"}, {TRUE})
  \/ OrderSteps({"r1"}, {1}, {Order_Ada}, MaxOrders, {"no_key"})
  \/ PaySteps({"admin"}, {1})

SpecCounts == Init /\ [][NextCounts]_vars

\* C34: in every committed state the letter_count of each Event is the number
\* of stored Letters the Event owns: the row and the increment are committed
\* together or not at all, and neither an Order nor mark-paid changes the
\* count.
C34_LetterCountMatchesLetters ==
  \A e \in EventIds :
     events[e].letter_count
       = Cardinality({i \in DOMAIN letters : letters[i].event_id = e})

\* a Letter, an Order and a mark-paid on the Event, and a creation that
\* failed after its ledger write
C34_Witness ==
  /\ events[1].letter_count = 1
  /\ Len(letters) = 1
  /\ Len(orders) = 1
  /\ events[1].is_paid
  /\ out.op = "create_letter" /\ out.tag = "500"
(* ------------------------------------------------------------------ *)
(* mailed_at                                                           *)
(* ------------------------------------------------------------------ *)

\* C35: in every committed state, whatever the interleaving of poll runs
\* and mark-mailed callbacks, a Letter has mailed_at set if and only if its
\* status is shipped.
C35_MailedAtIffShipped ==
  \A i \in DOMAIN letters :
     ~IsNone(letters[i].mailed_at) <=> letters[i].status = SHIPPED
\* the scheduled poll run and a manually triggered one overlap; the Mail
\* Gateway fails or answers processing or shipped, the edits go through
NextOverlap ==
  \/ RequestSteps({"r1"}, {1}, ReconRequests, {"ok"}, {TRUE})
  \/ \E p \in PollRuns : check_all_pending_letters_start(p)
  \/ \E p \in PollRuns, answer \in FrameAnswers :
        check_all_pending_letters_step(p, answer, "ok")
  \/ \E p \in PollRuns : check_all_pending_letters_return(p)

SpecOverlap == Init /\ [][NextOverlap]_vars

\* C36: for each Letter, whatever the interleaving of poll runs and
\* mark-mailed callbacks, mailed_at is stamped at most once (once set it is
\* never written again) and at most one shipped edit is pushed to the
\* Notification Gateway.
C36_StampedAndEditedOnce ==
  [][/\ \A i \in DOMAIN letters :
          ~IsNone(letters[i].mailed_at) => letters'[i].mailed_at = letters[i].mailed_at
     /\ \A id \in TheseusIds : slack'.edits[id] <= 1]_vars
(* ------------------------------------------------------------------ *)
(* The paid flag                                                       *)
(* ------------------------------------------------------------------ *)

\* C37: in every reachable state an Event whose is_paid flag is true has a
\* balance due of zero, also after Letters or Orders are created for an
\* Event that was marked paid before.
C37_PaidMeansNothingDue ==
  \A e \in EventIds : events[e].is_paid => events[e].balance_due_cents = 0
\* the charges that the committed creations made to Event e
Charged(e) == LetterCharges(e, Len(letters)) + 100 * Cardinality(OrdersOf(e))

\* the previous balance that a mark-paid for Event e reports in this step
ReportedPaid(e) ==
  IF \E p \in PayChannels :
        /\ payers[p].pc = "loaded" /\ payers[p].event_id = e
        /\ payers'[p].pc = "idle"
  THEN out'.nums[1]
  ELSE 0

\* C38: charges are conserved across mark-paid: for every Event and every
\* interleaving of creations with mark-paid operations, the previous
\* balances reported by the mark-paid operations plus the current balance
\* equal the total of the committed creation charges. Every quantity is 0
\* at the start, so the equation holds in every state exactly when every
\* step adds the same amount to both of its sides.
C38_ChargesAreConserved ==
  [][\A e \in EventIds :
       ReportedPaid(e) + events'[e].balance_due_cents - events[e].balance_due_cents
         = Charged(e)' - Charged(e)]_vars
(* ------------------------------------------------------------------ *)
(* Who may act                                                         *)
(* ------------------------------------------------------------------ *)

\* a Letter and an Order are created; the operator and another user press
\* the button and submit the modals on either channel, one handler at a time
NextAccess ==
  \/ Quiet /\ create_letter_call("r1", 1, CHOOSE req \in ReconRequests : TRUE, "ok")
  \/ create_letter_commit("r1", TRUE, "sent")
  \/ Quiet /\ \E o \in OrderIdSpace :
                 OrdersBegun < MaxOrders /\ create_order_generate("r1", 1, Order_Ada, o)
  \/ create_order_flush("r1")
  \/ create_order_commit("r1", TRUE, "no_key")
  \/ Quiet /\ \E ch \in Channels, user \in SlackUsers, id \in TheseusIds :
                 handle_mark_mailed_press(ch, user, id)
  \/ \E ch \in Channels, response \in {"200", "500"} :
        handle_mark_mailed_commit(ch, response, "ok")
  \/ Quiet /\ \E ch \in Channels, user \in SlackUsers, o \in OrderIdSpace,
                  t \in FrameTracks :
                 handle_fulfill_order_modal_submit(ch, user, o, t, None)
  \/ \E ch \in Channels : handle_fulfill_order_modal_commit(ch, "ok")
  \/ Quiet /\ \E ch \in Channels, user \in SlackUsers, o \in OrderIdSpace,
                  t \in FrameTracks :
                 handle_update_tracking_modal_submit(ch, user, o, t)
  \/ \E ch \in Channels : handle_update_tracking_modal_commit(ch, "ok")

SpecAccess == Init /\ [][NextAccess]_vars

\* a step of an interactive action that a user other than the operator
\* started: the end of their button press or of their modal submission
ActsForAnother ==
  \E ch \in Channels :
     \/ /\ callbacks[ch].pc = "loaded" /\ callbacks'[ch].pc = "idle"
        /\ callbacks[ch].user # slack_jenin_user_id
     \/ /\ modals[ch].pc = "loaded" /\ modals'[ch].pc = "idle"
        /\ modals[ch].user # slack_jenin_user_id

\* C39: an interactive action (mark mailed, fulfill order, update tracking)
\* changes stored state only when the acting Slack user is the operator, on
\* the HTTP channel and on the Socket Mode channel: an action by any other
\* user leaves every Letter, Order and Event unchanged.
C39_OnlyTheOperatorActs ==
  [][ActsForAnother => letters' = letters /\ orders' = orders /\ events' = events]_vars
(* ------------------------------------------------------------------ *)
(* A fulfilled Order                                                   *)
(* ------------------------------------------------------------------ *)

\* a step that ends a fulfill-modal submission for the Order of row i
FulfillEnds(i) ==
  \E ch \in Channels :
     /\ modals[ch].pc = "loaded" /\ modals[ch].op = "fulfill" /\ modals[ch].row = i
     /\ modals'[ch].pc = "idle"

\* C40: once an Order is fulfilled its fulfilled_at and fulfillment_note
\* never change again, and a further fulfill-modal submission for it (a
\* repeated one, or one of two in flight) does not overwrite fulfilled_at,
\* fulfillment_note or tracking_code.
C40_FulfilledOrderIsNotOverwritten ==
  [][\A i \in OrderIndex :
       orders[i].status = FULFILLED
       => /\ orders'[i].fulfilled_at = orders[i].fulfilled_at
          /\ orders'[i].fulfillment_note = orders[i].fulfillment_note
          /\ FulfillEnds(i) => orders'[i].tracking_code = orders[i].tracking_code]_vars
====
